---------------------------- MODULE Spec2Model ----------------------------
(***************************************************************************)
(* Model of the altruist-rs sensor framework: the generic acquisition loop *)
(* (sensor_task_impl), the three drivers as seen by that loop, the bounded *)
(* reading channel with its single consumer, and the sensor manager.       *)
(*                                                                         *)
(* Scheduling is cooperative: a task runs from one await to the next       *)
(* without interruption, so every action below is the code between two     *)
(* suspension points of one task.  Driver state is private to its task.    *)
(***************************************************************************)
EXTENDS Integers, Sequences, FiniteSets, TLC

(***************************************************************************)
(* Bounds of the model (not program constants).                            *)
(***************************************************************************)
\* readings constructed in one behaviour of the composed system
MaxReadings == 2
\* readings constructed in one behaviour of the saturation scenario
MaxBurst == 33
\* cap on the loop's consecutive_errors counter (u32 in the code)
MaxConsecutiveErrors == 5
\* number of SensorType variants the manager operations are called with
MaxTypes == 2
\* timestamps passed to update_sensor_stats range over 0..MaxTimestamp
MaxTimestamp == 1
\* cap on a registry entry's error_count (u32 in the code)
MaxErrorCount == 1
\* query frames the ME2-CO driver writes in one behaviour of the driver alone
MaxQueries == 2
\* the system clock runs over 0..MaxClock milliseconds
MaxClock == 3
\* cap on consecutive_errors of the SDS011 task run with its driver inside
MaxLoopErrors == 7
\* last_error.elapsed() is followed up to MaxAge seconds in that run
MaxAge == 120
\* bytes one read() scans in that run while it looks for a header
MaxScanned == 2

(***************************************************************************)
(* Program constants.                                                      *)
(***************************************************************************)
CHANNEL_CAPACITY == 32
REGISTRY_CAPACITY == 16
INIT_RETRY_SECS == 5
\* faulty variant: the loop backs off for 30 s, six times the init retry delay
BACKOFF_SECS_short == 6 * INIT_RETRY_SECS
\* Timer::after(Duration::from_secs(60)) of the reading loop
BACKOFF_SECS == 60
BACKOFF_THRESHOLD == 3

Sensors == {"ME2CO", "SDS011", "BME280"}

\* SensorType, in declaration order
SensorTypeList ==
    << "BME280", "BME680", "SHT30", "SDS011", "PMS7003", "ME2CO",
       "SCD4X", "SGP30", "RadSens", "ICS43434", "GPS", "AnalogSensor" >>

SensorType == { SensorTypeList[i] : i \in 1..Len(SensorTypeList) }

\* the types the manager is exercised with
TypeUniverse == { SensorTypeList[i] : i \in 1..MaxTypes }

\* Sensor::warm_up_time of each driver, seconds
warm_up_time(t) ==
    CASE t = "ME2CO"  -> 10
      [] t = "SDS011" -> 15
      [] t = "BME280" -> 2

\* Sensor::reading_interval of each driver, seconds
reading_interval(t) ==
    CASE t = "ME2CO"  -> 30
      [] t = "SDS011" -> 30
      [] t = "BME280" -> 30

\* errors init() of each driver can return
InitErrors(t) ==
    CASE t = "ME2CO"  -> {"CommunicationError", "Timeout"}
      [] t = "SDS011" -> {"CommunicationError", "Timeout"}
      [] t = "BME280" -> {"HardwareFailure", "CommunicationError", "Timeout"}

\* errors read() of an initialized driver can return
ReadErrors(t) ==
    CASE t = "ME2CO"  -> {"CommunicationError", "Timeout", "InvalidData"}
      [] t = "SDS011" -> {"CommunicationError", "Timeout", "InvalidData"}
      [] t = "BME280" -> {"CommunicationError", "Timeout"}

VARIABLES
    pc,                  \* per task: position in sensor_task_impl
    initialized,         \* per driver: its `initialized` field
    consecutive_errors,  \* per task: the loop's local counter
    sleeping,            \* per task: seconds of the Timer::after in progress, 0 if none
    init_error,          \* per task: error of the init() being retried, "none" otherwise
    me2co_rx,            \* ME2-CO UART receiver while read() awaits: "idle", "data", "error"
    channel,             \* SENSOR_CHANNEL: queued readings, oldest first
    next_serial,         \* history: readings constructed so far
    accepted,            \* history: readings whose try_send returned Ok, in order
    received,            \* history: readings returned by receive(), in order
    dropped,             \* history: readings whose try_send returned Err, in order
    registry,            \* SensorManager.registry
    register_result,     \* return value of the last register_sensor call
    last_call,           \* history: the manager operation called last, its arguments,
                         \* and whether its type was registered when it was called
    me_pc,               \* Me2CoSensorWrapper: "ready" (no call in progress) or
                         \* "collect" (read() awaits uart.read in its collection loop)
    me_response,         \* read(): the local `response` buffer, 9 bytes
    me_bytes_read,       \* read(): the local `bytes_read`
    me_elapsed,          \* read(): start_time.elapsed(), ms
    me_fifo,             \* UART1 receive FIFO: bytes received and not yet read
    me_tx,               \* ME2-CO device: bytes it has still to send
    me_result,           \* what the last call of the ME2-CO driver returned
    me_queries,          \* history: query frames written so far
    me_answer,           \* history: what the device sends in answer to the query
                         \* of the current read()
    sds_pc,              \* Sds011Sensor: "ready" (no call in progress), "start" (read()
                         \* awaits the start command), "settle" (it sleeps the
                         \* settle period), "discard", "scan", "payload"
                         \* (read_measurement awaits a UART read in that loop)
    sds_is_running,      \* Sds011Sensor.is_running
    sds_error_count,     \* Sds011Sensor.error_count
    sds_last_error_age,  \* Sds011Sensor.last_error_time: -1 for None, else the seconds
                         \* since that instant (last_error.elapsed())
    sds_elapsed,         \* read_measurement: start.elapsed(), ms
    sds_read_pos,        \* read_measurement: the local `read_pos`
    sds_prev,            \* read_measurement: the byte scanned before the current one
                         \* (buffer[read_pos - 1] when read_pos > 0), -1 if none yet
    sds_data,            \* read_measurement: data[0..data_pos] of the candidate frame
    sds_discarded,       \* read_measurement: the byte the discard loop stored last
    sds_io,              \* history: the current read() has used the UART
    sds_log,             \* history: the start command and the settle wait of the
                         \* current read(), in order
    sds_result,          \* what the last call of the SDS011 driver returned
    bme_pc,              \* Bme280Sensor: "ready" (no call in progress), "measure"
                         \* (read_compensated_data awaits the 50 ms timer and the
                         \* 8 data registers)
    bme_compensated,     \* read(): the (temperature, humidity, pressure) that
                         \* read_compensated_data returned last, as fixed-point integers
    bme_result,          \* what the last call of the BME280 driver returned
    bme_address,         \* Bme280Sensor.address
    bme_log,             \* history: the bus transactions of the current call, in order
    bme_calibration,     \* Bme280Sensor.dig_t1..dig_t3, dig_h1..dig_h6 as read_calibration
                         \* stored them
    t_fine,              \* Bme280Sensor.t_fine
    bme_compensation,    \* what the last compensation call was given and returned
    clock,               \* the system clock: milliseconds since boot
    reading,             \* the SensorReading constructed last, with the clock of
                         \* its construction (history)
    previous_reading,    \* history: timestamp and construction clock of the
                         \* reading constructed before it
    is_valid_result      \* what is_valid() returned for `reading`, if called

taskVars == << pc, initialized, consecutive_errors, sleeping, init_error, me2co_rx >>
chanVars == << channel, next_serial, accepted, received, dropped >>
mgrVars == << registry, register_result, last_call >>
me2coVars == << me_pc, me_response, me_bytes_read, me_elapsed, me_fifo, me_tx,
               me_result, me_queries, me_answer >>
sds011Vars == << sds_pc, sds_is_running, sds_error_count, sds_last_error_age,
                sds_elapsed, sds_read_pos, sds_prev, sds_data, sds_discarded,
                sds_io, sds_log, sds_result >>
compensationVars == << bme_calibration, t_fine, bme_compensation >>
bme280Vars == << bme_pc, bme_compensated, bme_result, bme_address, bme_log,
                compensationVars >>
drvVars == << me2coVars, sds011Vars, bme280Vars >>
readingVars == << clock, reading, previous_reading, is_valid_result >>
vars == << pc, initialized, consecutive_errors, sleeping, init_error, me2co_rx,
           channel, next_serial, accepted, received, dropped,
           registry, register_result, last_call,
           me_pc, me_response, me_bytes_read, me_elapsed, me_fifo, me_tx,
           me_result, me_queries, me_answer,
           sds_pc, sds_is_running, sds_error_count, sds_last_error_age,
           sds_elapsed, sds_read_pos, sds_prev, sds_data, sds_discarded,
           sds_io, sds_log, sds_result,
           bme_pc, bme_compensated, bme_result, bme_address, bme_log,
           bme_calibration, t_fine, bme_compensation,
           clock, reading, previous_reading, is_valid_result >>

\* SensorReading::new: sensor_type plus a serial number standing for the payload
SensorReading(t, n) == [sensor_type |-> t, serial |-> n]

Init ==
    /\ pc = [t \in Sensors |-> "init"]
    /\ initialized = [t \in Sensors |-> FALSE]
    /\ consecutive_errors = [t \in Sensors |-> 0]
    /\ sleeping = [t \in Sensors |-> 0]
    /\ init_error = [t \in Sensors |-> "none"]
    /\ me2co_rx = "idle"
    /\ channel = << >>
    /\ next_serial = 0
    /\ accepted = << >>
    /\ received = << >>
    /\ dropped = << >>
    /\ registry = << >>
    /\ register_result = "none"
    /\ last_call = [op |-> "none", sensor_type |-> "none", timestamp |-> 0,
                    had_error |-> FALSE, registered |-> FALSE]
    /\ me_pc = "ready"
    /\ me_response = [i \in 1..9 |-> 0]
    /\ me_bytes_read = 0
    /\ me_elapsed = 0
    /\ me_fifo = << >>
    /\ me_tx = << >>
    /\ me_result = [call |-> "none", value |-> "none"]
    /\ me_queries = 0
    /\ me_answer = << >>
    /\ sds_pc = "ready"
    /\ sds_is_running = FALSE
    /\ sds_error_count = 0
    /\ sds_last_error_age = -1
    /\ sds_elapsed = 0
    /\ sds_read_pos = 0
    /\ sds_prev = -1
    /\ sds_data = << >>
    /\ sds_discarded = 0
    /\ sds_io = FALSE
    /\ sds_log = << >>
    /\ sds_result = [call |-> "none", value |-> "none", pm25 |-> 0, pm10 |-> 0]
    /\ bme_pc = "ready"
    /\ bme_compensated = [temperature |-> 0, humidity |-> 0, pressure |-> 0]
    /\ bme_result = [call |-> "none", value |-> "none"]
    /\ bme_address = 118
    /\ bme_log = << >>
    /\ bme_calibration = [dig_t1 |-> 0, dig_t2 |-> 0, dig_t3 |-> 0,
                          dig_h1 |-> 0, dig_h2 |-> 0, dig_h3 |-> 0,
                          dig_h4 |-> 0, dig_h5 |-> 0, dig_h6 |-> 0]
    /\ t_fine = 0
    /\ bme_compensation = [call |-> "none", adc |-> 0, outcome |-> "value", value |-> 0]
    /\ clock = 0
    /\ reading = [constructed |-> FALSE, sensor_type |-> "BME280",
                  data |-> [variant |-> "Environmental", present |-> TRUE],
                  timestamp |-> 0, quality |-> "Good", constructed_at |-> 0]
    /\ previous_reading = [constructed |-> FALSE, timestamp |-> 0, constructed_at |-> 0]
    /\ is_valid_result = [called |-> FALSE, value |-> FALSE]

(***************************************************************************)
(* Reading channel (manager.rs:10) and its consumer.                       *)
(***************************************************************************)
\* faulty variant: a full channel makes room by discarding its oldest reading
try_send_overwrite(r) ==
    IF Len(channel) < CHANNEL_CAPACITY
    THEN /\ channel' = Append(channel, r)
         /\ accepted' = Append(accepted, r)
         /\ UNCHANGED dropped
    ELSE /\ channel' = Append(Tail(channel), r)
         /\ accepted' = Append(accepted, r)
         /\ dropped' = Append(dropped, Head(channel))

\* faulty variant: send().await, the producer waits for room
try_send_blocking(r) ==
    /\ Len(channel) < CHANNEL_CAPACITY
    /\ channel' = Append(channel, r)
    /\ accepted' = Append(accepted, r)
    /\ UNCHANGED dropped

\* sender.try_send(reading): Ok appends at the tail, Err (full) drops the reading
try_send(r) ==
    IF Len(channel) < CHANNEL_CAPACITY
    THEN /\ channel' = Append(channel, r)
         /\ accepted' = Append(accepted, r)
         /\ UNCHANGED dropped
    ELSE /\ dropped' = Append(dropped, r)
         /\ UNCHANGED << channel, accepted >>

\* faulty variant: the consumer takes the newest reading
Receive_newest ==
    /\ channel # << >>
    /\ received' = Append(received, channel[Len(channel)])
    /\ channel' = SubSeq(channel, 1, Len(channel) - 1)
    /\ UNCHANGED << next_serial, accepted, dropped >>
    /\ UNCHANGED taskVars
    /\ UNCHANGED mgrVars
    /\ UNCHANGED readingVars
    /\ UNCHANGED drvVars

\* sensor_aggregator_task: one receive() per loop iteration, then rendering only
Receive ==
    /\ channel # << >>
    /\ received' = Append(received, Head(channel))
    /\ channel' = Tail(channel)
    /\ UNCHANGED << next_serial, accepted, dropped >>
    /\ UNCHANGED taskVars
    /\ UNCHANGED mgrVars
    /\ UNCHANGED readingVars
    /\ UNCHANGED drvVars

(***************************************************************************)
(* sensor_task_impl: init retry, warm-up, reading loop.                    *)
(***************************************************************************)
\* match arm Ok(()) of sensor.init(), then the warm-up test
InitOk(t) ==
    /\ pc[t] = "init"
    /\ initialized' = [initialized EXCEPT ![t] = TRUE]
    /\ IF warm_up_time(t) > 0
       THEN /\ pc' = [pc EXCEPT ![t] = "warm_up"]
            /\ sleeping' = [sleeping EXCEPT ![t] = warm_up_time(t)]
            /\ UNCHANGED consecutive_errors
       ELSE /\ pc' = [pc EXCEPT ![t] = "read"]
            /\ sleeping' = [sleeping EXCEPT ![t] = 0]
            /\ consecutive_errors' = [consecutive_errors EXCEPT ![t] = 0]
    /\ UNCHANGED << init_error, me2co_rx >>
    /\ UNCHANGED chanVars
    /\ UNCHANGED mgrVars
    /\ UNCHANGED readingVars
    /\ UNCHANGED drvVars

\* faulty variant: a HardwareFailure ends the task instead of being retried
InitErr_give_up(t, e) ==
    /\ pc[t] = "init"
    /\ e \in InitErrors(t)
    /\ IF e = "HardwareFailure"
       THEN /\ pc' = [pc EXCEPT ![t] = "disabled"]
            /\ sleeping' = [sleeping EXCEPT ![t] = 0]
       ELSE /\ pc' = [pc EXCEPT ![t] = "init_retry"]
            /\ sleeping' = [sleeping EXCEPT ![t] = INIT_RETRY_SECS]
    /\ init_error' = [init_error EXCEPT ![t] = e]
    /\ UNCHANGED << initialized, consecutive_errors, me2co_rx >>
    /\ UNCHANGED chanVars
    /\ UNCHANGED mgrVars
    /\ UNCHANGED readingVars
    /\ UNCHANGED drvVars

\* match arm Err(e) of sensor.init(): sleep 5 s, loop
InitErr(t, e) ==
    /\ pc[t] = "init"
    /\ e \in InitErrors(t)
    /\ pc' = [pc EXCEPT ![t] = "init_retry"]
    /\ sleeping' = [sleeping EXCEPT ![t] = INIT_RETRY_SECS]
    /\ init_error' = [init_error EXCEPT ![t] = e]
    /\ UNCHANGED << initialized, consecutive_errors, me2co_rx >>
    /\ UNCHANGED chanVars
    /\ UNCHANGED mgrVars
    /\ UNCHANGED readingVars
    /\ UNCHANGED drvVars

\* faulty variant: after the 5 s sleep the task goes on to the reading loop
InitRetryWake_skip(t) ==
    /\ pc[t] = "init_retry"
    /\ pc' = [pc EXCEPT ![t] = "read"]
    /\ sleeping' = [sleeping EXCEPT ![t] = 0]
    /\ init_error' = [init_error EXCEPT ![t] = "none"]
    /\ UNCHANGED << initialized, consecutive_errors, me2co_rx >>
    /\ UNCHANGED chanVars
    /\ UNCHANGED mgrVars
    /\ UNCHANGED readingVars
    /\ UNCHANGED drvVars

\* the 5 s timer fires: next iteration of the init loop
InitRetryWake(t) ==
    /\ pc[t] = "init_retry"
    /\ pc' = [pc EXCEPT ![t] = "init"]
    /\ sleeping' = [sleeping EXCEPT ![t] = 0]
    /\ init_error' = [init_error EXCEPT ![t] = "none"]
    /\ UNCHANGED << initialized, consecutive_errors, me2co_rx >>
    /\ UNCHANGED chanVars
    /\ UNCHANGED mgrVars
    /\ UNCHANGED readingVars
    /\ UNCHANGED drvVars

\* the warm-up timer fires: the reading loop starts with consecutive_errors = 0
WarmUpDone(t) ==
    /\ pc[t] = "warm_up"
    /\ pc' = [pc EXCEPT ![t] = "read"]
    /\ sleeping' = [sleeping EXCEPT ![t] = 0]
    /\ consecutive_errors' = [consecutive_errors EXCEPT ![t] = 0]
    /\ UNCHANGED << initialized, init_error, me2co_rx >>
    /\ UNCHANGED chanVars
    /\ UNCHANGED mgrVars
    /\ UNCHANGED readingVars
    /\ UNCHANGED drvVars

\* faulty variant: a failed send is counted as a read error
OnReadOk_drop_counts(t) ==
    /\ next_serial' = next_serial + 1
    /\ try_send(SensorReading(t, next_serial + 1))
    /\ IF Len(channel) < CHANNEL_CAPACITY
       THEN /\ consecutive_errors' = [consecutive_errors EXCEPT ![t] = 0]
            /\ pc' = [pc EXCEPT ![t] = "interval"]
            /\ sleeping' = [sleeping EXCEPT ![t] = reading_interval(t)]
       ELSE /\ consecutive_errors' = [consecutive_errors EXCEPT ![t] = 1]
            /\ pc' = [pc EXCEPT ![t] = "interval"]
            /\ sleeping' = [sleeping EXCEPT ![t] = reading_interval(t)]
    /\ UNCHANGED received

\* match arm Ok(reading) of sensor.read(), then Timer::after(interval)
OnReadOk(t) ==
    /\ consecutive_errors' = [consecutive_errors EXCEPT ![t] = 0]
    /\ next_serial' = next_serial + 1
    /\ try_send(SensorReading(t, next_serial + 1))
    /\ pc' = [pc EXCEPT ![t] = "interval"]
    /\ sleeping' = [sleeping EXCEPT ![t] = reading_interval(t)]
    /\ UNCHANGED received

\* faulty variant: the backoff starts at the 3rd consecutive error (>= for >)
OnReadErr_at_threshold(t) ==
    /\ consecutive_errors' =
           [consecutive_errors EXCEPT ![t] = consecutive_errors[t] + 1]
    /\ IF consecutive_errors[t] + 1 >= BACKOFF_THRESHOLD
       THEN /\ pc' = [pc EXCEPT ![t] = "backoff"]
            /\ sleeping' = [sleeping EXCEPT ![t] = BACKOFF_SECS]
       ELSE /\ pc' = [pc EXCEPT ![t] = "interval"]
            /\ sleeping' = [sleeping EXCEPT ![t] = reading_interval(t)]
    /\ UNCHANGED chanVars

\* faulty variant: one error counter shared by all tasks
OnReadErr_shared_counter(t) ==
    /\ consecutive_errors' =
           [u \in Sensors |->
               IF consecutive_errors[u] < MaxConsecutiveErrors
               THEN consecutive_errors[u] + 1
               ELSE consecutive_errors[u]]
    /\ IF consecutive_errors[t] + 1 > BACKOFF_THRESHOLD
       THEN /\ pc' = [pc EXCEPT ![t] = "backoff"]
            /\ sleeping' = [sleeping EXCEPT ![t] = BACKOFF_SECS]
       ELSE /\ pc' = [pc EXCEPT ![t] = "interval"]
            /\ sleeping' = [sleeping EXCEPT ![t] = reading_interval(t)]
    /\ UNCHANGED chanVars

\* match arm Err(e) of sensor.read(): count, then back off or sleep the interval
OnReadErr(t) ==
    /\ consecutive_errors' =
           [consecutive_errors EXCEPT ![t] = consecutive_errors[t] + 1]
    /\ IF consecutive_errors[t] + 1 > BACKOFF_THRESHOLD
       THEN /\ pc' = [pc EXCEPT ![t] = "backoff"]
            /\ sleeping' = [sleeping EXCEPT ![t] = BACKOFF_SECS]
       ELSE /\ pc' = [pc EXCEPT ![t] = "interval"]
            /\ sleeping' = [sleeping EXCEPT ![t] = reading_interval(t)]
    /\ UNCHANGED chanVars

\* the interval timer fires: next iteration of the reading loop
IntervalDone(t) ==
    /\ pc[t] = "interval"
    /\ pc' = [pc EXCEPT ![t] = "read"]
    /\ sleeping' = [sleeping EXCEPT ![t] = 0]
    /\ UNCHANGED << initialized, consecutive_errors, init_error, me2co_rx >>
    /\ UNCHANGED chanVars
    /\ UNCHANGED mgrVars
    /\ UNCHANGED readingVars
    /\ UNCHANGED drvVars

\* faulty variant: the task initializes the sensor again after a backoff
BackoffDone_reinit(t) ==
    /\ pc[t] = "backoff"
    /\ pc' = [pc EXCEPT ![t] = "init"]
    /\ sleeping' = [sleeping EXCEPT ![t] = 0]
    /\ UNCHANGED << initialized, consecutive_errors, init_error, me2co_rx >>
    /\ UNCHANGED chanVars
    /\ UNCHANGED mgrVars
    /\ UNCHANGED readingVars
    /\ UNCHANGED drvVars

\* the 60 s timer fires: `continue`, next iteration without the interval sleep
BackoffDone(t) ==
    /\ pc[t] = "backoff"
    /\ pc' = [pc EXCEPT ![t] = "read"]
    /\ sleeping' = [sleeping EXCEPT ![t] = 0]
    /\ UNCHANGED << initialized, consecutive_errors, init_error, me2co_rx >>
    /\ UNCHANGED chanVars
    /\ UNCHANGED mgrVars
    /\ UNCHANGED readingVars
    /\ UNCHANGED drvVars

(***************************************************************************)
(* Drivers as seen by the loop.  Every bus transaction of the SDS011 and   *)
(* BME280 drivers is wrapped in with_timeout, so their read() is one step  *)
(* that returns Ok or an error.                                            *)
(***************************************************************************)
Polled == {"SDS011", "BME280"}

\* Sds011Sensor::read / Bme280Sensor::read returning Ok(reading)
ReadOk(t) ==
    /\ t \in Polled
    /\ pc[t] = "read"
    /\ initialized[t]
    /\ OnReadOk(t)
    /\ UNCHANGED << initialized, init_error, me2co_rx >>
    /\ UNCHANGED mgrVars
    /\ UNCHANGED readingVars
    /\ UNCHANGED drvVars

\* Sds011Sensor::read / Bme280Sensor::read returning Err(e)
ReadErr(t, e) ==
    /\ t \in Polled
    /\ pc[t] = "read"
    /\ IF initialized[t] THEN e \in ReadErrors(t) ELSE e = "NotInitialized"
    /\ OnReadErr(t)
    /\ UNCHANGED << initialized, init_error, me2co_rx >>
    /\ UNCHANGED mgrVars
    /\ UNCHANGED readingVars
    /\ UNCHANGED drvVars

(***************************************************************************)
(* Me2CoSensorWrapper::read.  The query write is bounded by with_timeout.  *)
(* The response is collected by `uart.read(..).await` with no timeout      *)
(* around it, and the 1000 ms deadline is tested only between two reads:   *)
(* the task leaves "collect" only when the UART hands it bytes or an       *)
(* error.  The whole collection loop is one position of the task.          *)
(***************************************************************************)
\* the initialized test or the query write fails: read() returns Err(e)
Me2coQueryErr(e) ==
    /\ pc["ME2CO"] = "read"
    /\ IF initialized["ME2CO"]
       THEN e \in {"CommunicationError", "Timeout"}
       ELSE e = "NotInitialized"
    /\ OnReadErr("ME2CO")
    /\ UNCHANGED << initialized, init_error, me2co_rx >>
    /\ UNCHANGED mgrVars
    /\ UNCHANGED readingVars
    /\ UNCHANGED drvVars

\* the query is written, 50 ms pass, the collection loop awaits uart.read
Me2coQuerySent ==
    /\ pc["ME2CO"] = "read"
    /\ initialized["ME2CO"]
    /\ pc' = [pc EXCEPT !["ME2CO"] = "collect"]
    /\ UNCHANGED << initialized, consecutive_errors, sleeping, init_error, me2co_rx >>
    /\ UNCHANGED chanVars
    /\ UNCHANGED mgrVars
    /\ UNCHANGED readingVars
    /\ UNCHANGED drvVars

\* the device (or the line) acts while the task awaits: bytes arrive, or the
\* UART raises an error; nothing obliges it to do either
Me2coDevice(event) ==
    /\ pc["ME2CO"] = "collect"
    /\ me2co_rx = "idle"
    /\ event \in {"data", "error"}
    /\ me2co_rx' = event
    /\ UNCHANGED << pc, initialized, consecutive_errors, sleeping, init_error >>
    /\ UNCHANGED chanVars
    /\ UNCHANGED mgrVars
    /\ UNCHANGED readingVars
    /\ UNCHANGED drvVars

\* 9 bytes collected and they pass the header, checksum and range tests
Me2coFrameOk ==
    /\ pc["ME2CO"] = "collect"
    /\ me2co_rx = "data"
    /\ me2co_rx' = "idle"
    /\ OnReadOk("ME2CO")
    /\ UNCHANGED << initialized, init_error >>
    /\ UNCHANGED mgrVars
    /\ UNCHANGED readingVars
    /\ UNCHANGED drvVars

\* 9 bytes collected and they fail a test (InvalidData); or a read returned after
\* the deadline with fewer than 9 bytes collected, or returned Err (Timeout)
Me2coFrameErr(e) ==
    /\ pc["ME2CO"] = "collect"
    /\ \/ me2co_rx = "data" /\ e \in {"InvalidData", "Timeout"}
       \/ me2co_rx = "error" /\ e = "Timeout"
    /\ me2co_rx' = "idle"
    /\ OnReadErr("ME2CO")
    /\ UNCHANGED << initialized, init_error >>
    /\ UNCHANGED mgrVars
    /\ UNCHANGED readingVars
    /\ UNCHANGED drvVars

(***************************************************************************)
(* SensorManager.                                                          *)
(***************************************************************************)
\* registry.iter().any(|s| s.sensor_type == sensor_type)
is_sensor_registered(t) ==
    \E i \in 1..Len(registry) : registry[i].sensor_type = t

\* position of the entry iter_mut().find(..) returns (the first match), 0 if none
FindEntry(t) ==
    IF is_sensor_registered(t)
    THEN CHOOSE i \in 1..Len(registry) :
             /\ registry[i].sensor_type = t
             /\ \A j \in 1..(i - 1) : registry[j].sensor_type # t
    ELSE 0

\* faulty variant: no test for an entry of the same type
register_sensor_unchecked(t) ==
    /\ IF Len(registry) >= REGISTRY_CAPACITY
       THEN /\ register_result' = "ConfigError"
            /\ UNCHANGED registry
       ELSE /\ registry' = Append(registry,
                               [sensor_type |-> t, task_spawned |-> FALSE,
                                last_reading_time |-> 0, error_count |-> 0])
            /\ register_result' = "Ok"
    /\ UNCHANGED taskVars
    /\ UNCHANGED chanVars
    /\ UNCHANGED drvVars
    /\ UNCHANGED readingVars

\* SensorManager::register_sensor
register_sensor(t) ==
    /\ IF is_sensor_registered(t)
       THEN /\ register_result' = "ConfigError"
            /\ UNCHANGED registry
       ELSE IF Len(registry) >= REGISTRY_CAPACITY
       THEN /\ register_result' = "ConfigError"
            /\ UNCHANGED registry
       ELSE /\ registry' = Append(registry,
                               [sensor_type |-> t, task_spawned |-> FALSE,
                                last_reading_time |-> 0, error_count |-> 0])
            /\ register_result' = "Ok"
    /\ UNCHANGED taskVars
    /\ UNCHANGED chanVars
    /\ UNCHANGED drvVars
    /\ UNCHANGED readingVars

\* faulty variant: every entry is marked, not only the one of the given type
mark_task_spawned_all(t) ==
    /\ registry' = [i \in 1..Len(registry) |->
                        [registry[i] EXCEPT !.task_spawned = TRUE]]
    /\ UNCHANGED register_result
    /\ UNCHANGED taskVars
    /\ UNCHANGED chanVars
    /\ UNCHANGED drvVars
    /\ UNCHANGED readingVars

\* SensorManager::mark_task_spawned
mark_task_spawned(t) ==
    /\ IF FindEntry(t) # 0
       THEN registry' = [registry EXCEPT ![FindEntry(t)].task_spawned = TRUE]
       ELSE UNCHANGED registry
    /\ UNCHANGED register_result
    /\ UNCHANGED taskVars
    /\ UNCHANGED chanVars
    /\ UNCHANGED drvVars
    /\ UNCHANGED readingVars

\* faulty variant: a success clears the entry's error_count
update_sensor_stats_clearing(t, timestamp, had_error) ==
    /\ IF FindEntry(t) # 0
       THEN registry' =
                [registry EXCEPT
                    ![FindEntry(t)].last_reading_time = timestamp,
                    ![FindEntry(t)].error_count =
                        IF had_error THEN @ + 1 ELSE 0]
       ELSE UNCHANGED registry
    /\ UNCHANGED register_result
    /\ UNCHANGED taskVars
    /\ UNCHANGED chanVars
    /\ UNCHANGED drvVars
    /\ UNCHANGED readingVars

\* SensorManager::update_sensor_stats
update_sensor_stats(t, timestamp, had_error) ==
    /\ IF FindEntry(t) # 0
       THEN registry' =
                [registry EXCEPT
                    ![FindEntry(t)].last_reading_time = timestamp,
                    ![FindEntry(t)].error_count =
                        IF had_error THEN @ + 1 ELSE @]
       ELSE UNCHANGED registry
    /\ UNCHANGED register_result
    /\ UNCHANGED taskVars
    /\ UNCHANGED chanVars
    /\ UNCHANGED drvVars
    /\ UNCHANGED readingVars

(***************************************************************************)
(* Specifications.                                                         *)
(***************************************************************************)
\* the loop's counter stays under the model's cap
CanFail(t) == consecutive_errors[t] < MaxConsecutiveErrors

\* steps of one acquisition task, at most `limit` readings constructed overall
TaskStep(t, limit) ==
    \/ InitOk(t)
    \/ \E e \in InitErrors(t) : InitErr(t, e)
    \/ InitRetryWake(t)
    \/ WarmUpDone(t)
    \/ IntervalDone(t)
    \/ BackoffDone(t)
    \/ next_serial < limit /\ ReadOk(t)
    \/ CanFail(t) /\ \E e \in ReadErrors(t) \cup {"NotInitialized"} : ReadErr(t, e)

\* steps of the ME2-CO task inside its read()
Me2coStep(limit) ==
    \/ CanFail("ME2CO") /\ \E e \in {"CommunicationError", "Timeout", "NotInitialized"} :
                               Me2coQueryErr(e)
    \/ Me2coQuerySent
    \/ next_serial < limit /\ Me2coFrameOk
    \/ CanFail("ME2CO") /\ \E e \in {"InvalidData", "Timeout"} : Me2coFrameErr(e)

\* what the ME2-CO device and its line do
Me2coEnvironment == \E event \in {"data", "error"} : Me2coDevice(event)

\* the composed system: three acquisition tasks and the aggregator
Next ==
    \/ \E t \in Sensors : TaskStep(t, MaxReadings)
    \/ Me2coStep(MaxReadings)
    \/ Me2coEnvironment
    \/ Receive

Spec == Init /\ [][Next]_vars

\* the composed system while only the BME280 answers: the other two tasks
\* stay in their init retry loop and the BME280 task fills the channel
Answering == {"BME280"}

NextBurst ==
    \/ \E t \in Sensors \ Answering :
           \/ \E e \in InitErrors(t) : InitErr(t, e)
           \/ InitRetryWake(t)
    \/ \E t \in Answering : TaskStep(t, MaxBurst)
    \/ Receive

SpecBurst == Init /\ [][NextBurst]_vars

\* the manager called with any sequence of its operations
Called(op, t, ts, had_error) ==
    last_call' = [op |-> op, sensor_type |-> t, timestamp |-> ts,
                  had_error |-> had_error, registered |-> is_sensor_registered(t)]

NextManager ==
    \/ \E t \in TypeUniverse :
           register_sensor(t) /\ Called("register_sensor", t, 0, FALSE)
    \/ \E t \in TypeUniverse :
           mark_task_spawned(t) /\ Called("mark_task_spawned", t, 0, FALSE)
    \/ \E t \in TypeUniverse, ts \in 0..MaxTimestamp, had_error \in BOOLEAN :
           /\ had_error =>
                  \A i \in 1..Len(registry) :
                      registry[i].sensor_type = t =>
                          registry[i].error_count < MaxErrorCount
           /\ update_sensor_stats(t, ts, had_error)
           /\ Called("update_sensor_stats", t, ts, had_error)

SpecManager == Init /\ [][NextManager]_vars

(***************************************************************************)
(* Me2CoSensorWrapper byte by byte: the driver called directly, its UART   *)
(* receive FIFO and the device.  read() has one suspension point in its    *)
(* collection loop, `self.uart.read(&mut response[bytes_read..]).await`,   *)
(* which returns once the FIFO holds a byte (or the UART reports an        *)
(* error); the loop test, the validation and the return follow it without  *)
(* another await.                                                          *)
(***************************************************************************)
ME2CO_FRAME_LEN == 9
ME2CO_DEADLINE_MS == 1000
ME2CO_MAX_PPM == 1000

Min(a, b) == IF a < b THEN a ELSE b

\* response[1..8].iter().sum(), before any reduction to 8 bits
ByteSum(response) ==
    response[2] + response[3] + response[4] + response[5]
        + response[6] + response[7] + response[8]

\* (!sum).wrapping_add(1) on u8
calculated_checksum(sum) == ((255 - sum) + 1) % 256

\* co_raw = (response[2] << 8) | response[3]
co_raw(response) == response[3] * 256 + response[4]

\* what the tests after the collection loop can return for 9 collected bytes.
\* The u8 sum is computed with `+`: when it exceeds 255 a build with overflow
\* checks panics and a build without them wraps.  co_ppm = co_raw as f32 * 0.1
\* is above 1000.0 exactly when co_raw is above 10000.
Me2coOutcomes(response) ==
    IF response[1] # 255 \/ response[2] # 134
    THEN {"InvalidData"}
    ELSE (IF ByteSum(response) > 255 THEN {"panic"} ELSE {})
         \cup { IF calculated_checksum(ByteSum(response) % 256) # response[9]
                THEN "InvalidData"
                ELSE IF co_raw(response) > ME2CO_MAX_PPM * 10
                THEN "InvalidData"
                ELSE "Ok" }

\* the frame a ZE07 device builds for a raw concentration and a reserved byte
Me2coFrame(raw, reserved) ==
    << 255, 134, raw \div 256, raw % 256, reserved, 0, 0, 0,
       (256 - ((134 + (raw \div 256) + (raw % 256) + reserved) % 256)) % 256 >>

\* frame f with the byte at position i (1..9) disturbed on the line
Disturbed(f, i) == [f EXCEPT ![i] = (@ + 1) % 256]

\* what the device may send in answer to one query: nothing, a well-formed
\* frame, or a frame with one byte disturbed
Me2coAnswers ==
    { << >> }
    \cup { Me2coFrame(raw, 0) : raw \in {0, 50, 255, 10000, 10001} }
    \cup { Disturbed(Me2coFrame(50, 0), i) : i \in 1..ME2CO_FRAME_LEN }

\* values start_time.elapsed() is observed at, ms
ElapsedSamples == {0, 999, 1000, 1500}

\* sizes of the bursts the device's bytes arrive in
ChunkSizes == {1, 4, 5, 9}

\* Me2CoSensorWrapper::init
Me2coInitCall(outcome) ==
    /\ me_pc = "ready"
    /\ outcome \in {"Ok", "CommunicationError", "Timeout"}
    /\ initialized' = IF outcome = "Ok"
                      THEN [initialized EXCEPT !["ME2CO"] = TRUE]
                      ELSE initialized
    /\ me_result' = [call |-> "init", value |-> outcome]
    /\ UNCHANGED << pc, consecutive_errors, sleeping, init_error, me2co_rx >>
    /\ UNCHANGED << me_pc, me_response, me_bytes_read, me_elapsed, me_fifo, me_tx,
                    me_queries, me_answer >>
    /\ UNCHANGED chanVars
    /\ UNCHANGED sds011Vars
    /\ UNCHANGED bme280Vars
    /\ UNCHANGED mgrVars
    /\ UNCHANGED readingVars

\* read() up to its collection loop: the initialized test, the query write under
\* its 500 ms timeout, the 50 ms sleep; `answer` is what the device will send
Me2coReadCall(outcome, answer) ==
    /\ me_pc = "ready"
    /\ IF ~initialized["ME2CO"]
       THEN outcome = "NotInitialized"
       ELSE outcome \in {"sent", "CommunicationError", "Timeout"}
    /\ IF outcome = "sent"
       THEN /\ answer \in Me2coAnswers
            /\ me_pc' = "collect"
            /\ me_queries' = me_queries + 1
            /\ me_tx' = me_tx \o answer
            /\ me_result' = [call |-> "read", value |-> "pending"]
       ELSE /\ answer = << >>
            /\ me_result' = [call |-> "read", value |-> outcome]
            /\ UNCHANGED << me_pc, me_queries, me_tx >>
    /\ me_response' = [i \in 1..ME2CO_FRAME_LEN |-> 0]
    /\ me_bytes_read' = 0
    /\ me_answer' = answer
    /\ me_elapsed' = 0
    /\ UNCHANGED me_fifo
    /\ UNCHANGED taskVars
    /\ UNCHANGED chanVars
    /\ UNCHANGED sds011Vars
    /\ UNCHANGED bme280Vars
    /\ UNCHANGED mgrVars
    /\ UNCHANGED readingVars

\* the device puts its next k bytes on the line, whenever it gets to it
Me2coDeviceSends(k) ==
    /\ k \in ChunkSizes
    /\ k <= Len(me_tx)
    /\ me_fifo' = me_fifo \o SubSeq(me_tx, 1, k)
    /\ me_tx' = SubSeq(me_tx, k + 1, Len(me_tx))
    /\ UNCHANGED << me_pc, me_response, me_bytes_read, me_elapsed, me_result,
                    me_queries, me_answer >>
    /\ UNCHANGED taskVars
    /\ UNCHANGED chanVars
    /\ UNCHANGED sds011Vars
    /\ UNCHANGED bme280Vars
    /\ UNCHANGED mgrVars
    /\ UNCHANGED readingVars

\* time passes while read() awaits uart.read
Me2coTimePasses(e) ==
    /\ me_pc = "collect"
    /\ e \in ElapsedSamples
    /\ e > me_elapsed
    /\ me_elapsed' = e
    /\ UNCHANGED << me_pc, me_response, me_bytes_read, me_fifo, me_tx, me_result,
                    me_queries, me_answer >>
    /\ UNCHANGED taskVars
    /\ UNCHANGED chanVars
    /\ UNCHANGED sds011Vars
    /\ UNCHANGED bme280Vars
    /\ UNCHANGED mgrVars
    /\ UNCHANGED readingVars

\* what read() returns once its collection loop has ended
Me2coReturn(response, bytes_read, value) ==
    /\ IF bytes_read >= ME2CO_FRAME_LEN
       THEN value \in Me2coOutcomes(response)
       ELSE value = "Timeout"
    /\ me_result' = [call |-> "read", value |-> value]
    /\ me_pc' = IF value = "panic" THEN "panicked" ELSE "ready"
    /\ me_elapsed' = 0

\* faulty variant: every chunk is stored from response[0] on
Me2coUartRead_restart(value) ==
    /\ me_pc = "collect"
    /\ me_fifo # << >>
    /\ LET n == Min(Len(me_fifo), ME2CO_FRAME_LEN - me_bytes_read)
           response == [i \in 1..ME2CO_FRAME_LEN |->
                           IF i <= n
                           THEN me_fifo[i]
                           ELSE me_response[i]]
       IN  /\ me_response' = response
           /\ me_bytes_read' = me_bytes_read + n
           /\ me_fifo' = SubSeq(me_fifo, n + 1, Len(me_fifo))
           /\ IF me_bytes_read + n < ME2CO_FRAME_LEN /\ me_elapsed < ME2CO_DEADLINE_MS
              THEN /\ value = "pending"
                   /\ UNCHANGED << me_pc, me_result, me_elapsed >>
              ELSE Me2coReturn(response, me_bytes_read + n, value)
    /\ UNCHANGED << me_tx, me_queries, me_answer >>
    /\ UNCHANGED taskVars
    /\ UNCHANGED chanVars
    /\ UNCHANGED sds011Vars
    /\ UNCHANGED bme280Vars
    /\ UNCHANGED mgrVars
    /\ UNCHANGED readingVars

\* uart.read returns Ok(n): n bytes are stored from response[bytes_read] on, then
\* the loop test `bytes_read < 9 && elapsed < 1000 ms` and, out of the loop, the
\* validation
Me2coUartRead(value) ==
    /\ me_pc = "collect"
    /\ me_fifo # << >>
    /\ LET n == Min(Len(me_fifo), ME2CO_FRAME_LEN - me_bytes_read)
           response == [i \in 1..ME2CO_FRAME_LEN |->
                           IF i > me_bytes_read /\ i <= me_bytes_read + n
                           THEN me_fifo[i - me_bytes_read]
                           ELSE me_response[i]]
       IN  /\ me_response' = response
           /\ me_bytes_read' = me_bytes_read + n
           /\ me_fifo' = SubSeq(me_fifo, n + 1, Len(me_fifo))
           /\ IF me_bytes_read + n < ME2CO_FRAME_LEN /\ me_elapsed < ME2CO_DEADLINE_MS
              THEN /\ value = "pending"
                   /\ UNCHANGED << me_pc, me_result, me_elapsed >>
              ELSE Me2coReturn(response, me_bytes_read + n, value)
    /\ UNCHANGED << me_tx, me_queries, me_answer >>
    /\ UNCHANGED taskVars
    /\ UNCHANGED chanVars
    /\ UNCHANGED sds011Vars
    /\ UNCHANGED bme280Vars
    /\ UNCHANGED mgrVars
    /\ UNCHANGED readingVars

\* uart.read returns Err(_): `break`, then the tests after the loop
Me2coUartReadErr ==
    /\ me_pc = "collect"
    /\ Me2coReturn(me_response, me_bytes_read, "Timeout")
    /\ UNCHANGED << me_response, me_bytes_read, me_fifo, me_tx, me_queries,
                    me_answer >>
    /\ UNCHANGED taskVars
    /\ UNCHANGED chanVars
    /\ UNCHANGED sds011Vars
    /\ UNCHANGED bme280Vars
    /\ UNCHANGED mgrVars
    /\ UNCHANGED readingVars

\* the ME2-CO driver called as the acquisition loop may call it (init() until
\* it returns Ok, read() at any time), and its device
NextMe2co ==
    \/ /\ ~initialized["ME2CO"]
       /\ \E outcome \in {"Ok", "CommunicationError", "Timeout"} : Me2coInitCall(outcome)
    \/ /\ me_queries < MaxQueries
       /\ \E outcome \in {"sent", "CommunicationError", "Timeout", "NotInitialized"},
             answer \in Me2coAnswers : Me2coReadCall(outcome, answer)
    \/ \E k \in ChunkSizes : Me2coDeviceSends(k)
    \/ \E e \in ElapsedSamples : Me2coTimePasses(e)
    \/ \E value \in {"pending", "Ok", "InvalidData", "Timeout", "panic"} :
           Me2coUartRead(value)
    \/ Me2coUartReadErr

SpecMe2co == Init /\ [][NextMe2co]_vars

(***************************************************************************)
(* Sds011Sensor step by step: the driver called directly and the bytes its *)
(* UART hands it.  Every UART operation of this driver is wrapped in       *)
(* with_timeout, so each await ends with bytes, an error or a timeout; the *)
(* bytes are the environment's choice at that moment.  `buffer` is         *)
(* consulted only at buffer[read_pos - 1] with read_pos > 0, the byte the  *)
(* scan stored one iteration earlier: sds_prev stands for it.              *)
(***************************************************************************)
SDS011_ERROR_LIMIT == 5
SDS011_COOLDOWN_SECS == 60
SDS011_DEADLINE_MS == 2000
SDS011_PAYLOAD_LEN == 8
SDS011_SETTLE_SECS == 3
MAX_READ_SIZE == 100

\* bytes the scan can meet: 0xAA, 0xC0, anything else
ScanBytes == {170, 192, 0}

\* values last_error.elapsed() is observed at, s
AgeSamples == {0, 59, 60}

\* values start.elapsed() is observed at, ms
ScanElapsedSamples == {0, 2000}

\* the 8 bytes an SDS011 sends after its header for raw values pm25 and pm10
Sds011Payload(pm25, pm10) ==
    << pm25 % 256, pm25 \div 256, pm10 % 256, pm10 \div 256, 7, 9,
       ((pm25 % 256) + (pm25 \div 256) + (pm10 % 256) + (pm10 \div 256) + 7 + 9) % 256,
       171 >>

\* what can follow a header on the line: well-formed payloads, in and out of
\* range, and payloads with one byte disturbed
Sds011Payloads ==
    { Sds011Payload(50, 300), Sds011Payload(9999, 9999),
      Sds011Payload(10000, 50), Sds011Payload(50, 10000) }
    \cup { Disturbed(Sds011Payload(50, 300), i) : i \in {1, 7, 8} }

\* sizes of the pieces a payload arrives in
Sds011Chunks == {3, 5, 8}

\* u8::wrapping_add
wrapping_add(a, b) == (a + b) % 256

\* Sds011Sensor::checksum_valid
checksum_valid(data) ==
    /\ data[8] = 171
    /\ wrapping_add(wrapping_add(wrapping_add(wrapping_add(wrapping_add(
            wrapping_add(0, data[1]), data[2]), data[3]), data[4]), data[5]),
            data[6]) = data[7]

\* pm25_raw and pm10_raw of read_measurement
pm25_raw(data) == data[1] + data[2] * 256
pm10_raw(data) == data[3] + data[4] * 256

\* read(): pm as f32 = raw / 10.0 is in [0, 1000) exactly when raw < 10000
in_range(raw) == raw >= 0 /\ raw < 10000

\* faulty variant: the failure is counted but its time is not recorded
Sds011Fail_untimed(e) ==
    /\ sds_error_count' = sds_error_count + 1
    /\ UNCHANGED sds_last_error_age
    /\ sds_result' = [call |-> "read", value |-> e, pm25 |-> 0, pm10 |-> 0]
    /\ sds_pc' = "ready"

\* read() returns Err(e) from one of its error arms
Sds011Fail(e) ==
    /\ sds_error_count' = sds_error_count + 1
    /\ sds_last_error_age' = 0
    /\ sds_result' = [call |-> "read", value |-> e, pm25 |-> 0, pm10 |-> 0]
    /\ sds_pc' = "ready"

\* the loop test `start.elapsed() < timeout` after an iteration of the scan
\* loop; out of the loop read_measurement returns Timeout
Sds011NextIteration ==
    IF sds_elapsed < SDS011_DEADLINE_MS
    THEN /\ sds_pc' = "scan"
         /\ UNCHANGED << sds_error_count, sds_last_error_age, sds_result >>
    ELSE Sds011Fail("Timeout")

\* the locals of read_measurement after a step: read_pos, the byte before it,
\* the candidate's data, the clock; they end with the call
Sds011Locals(read_pos, prev, data) ==
    IF sds_pc' = "ready"
    THEN /\ sds_read_pos' = 0
         /\ sds_prev' = -1
         /\ sds_data' = << >>
         /\ sds_elapsed' = 0
    ELSE /\ sds_read_pos' = read_pos
         /\ sds_prev' = prev
         /\ sds_data' = data
         /\ UNCHANGED sds_elapsed

\* Sds011Sensor::init: two mode commands, the stop command
Sds011InitCall(outcome) ==
    /\ sds_pc = "ready"
    /\ outcome \in {"Ok", "CommunicationError", "Timeout"}
    /\ IF outcome = "Ok"
       THEN /\ initialized' = [initialized EXCEPT !["SDS011"] = TRUE]
            /\ sds_is_running' = FALSE
       ELSE UNCHANGED << initialized, sds_is_running >>
    /\ sds_result' = [call |-> "init", value |-> outcome, pm25 |-> 0, pm10 |-> 0]
    /\ UNCHANGED << pc, consecutive_errors, sleeping, init_error, me2co_rx >>
    /\ UNCHANGED << sds_pc, sds_error_count, sds_last_error_age, sds_elapsed,
                    sds_read_pos, sds_prev, sds_data, sds_discarded, sds_io,
                    sds_log >>
    /\ UNCHANGED me2coVars
    /\ UNCHANGED bme280Vars
    /\ UNCHANGED chanVars
    /\ UNCHANGED mgrVars
    /\ UNCHANGED readingVars

\* faulty variant: the gate opens one error later (> for >=)
Sds011Gate_late ==
    IF sds_error_count > SDS011_ERROR_LIMIT /\ sds_last_error_age # -1
    THEN IF sds_last_error_age < SDS011_COOLDOWN_SECS THEN "cooldown" ELSE "reset"
    ELSE "pass"

\* read(): the error gate
Sds011Gate ==
    IF sds_error_count >= SDS011_ERROR_LIMIT /\ sds_last_error_age # -1
    THEN IF sds_last_error_age < SDS011_COOLDOWN_SECS THEN "cooldown" ELSE "reset"
    ELSE "pass"

\* read() up to its first await: the initialized test, the gate, then the start
\* command if the sensor is not running, else read_measurement's discard loop
Sds011ReadEntry ==
    /\ sds_pc = "ready"
    /\ sds_io' = FALSE
    /\ sds_log' = << >>
    /\ sds_elapsed' = 0
    /\ sds_read_pos' = 0
    /\ sds_prev' = -1
    /\ sds_data' = << >>
    /\ sds_discarded' = 0
    /\ IF ~initialized["SDS011"]
       THEN /\ sds_result' = [call |-> "read", value |-> "NotInitialized",
                              pm25 |-> 0, pm10 |-> 0]
            /\ UNCHANGED << sds_pc, sds_error_count, sds_last_error_age >>
       ELSE IF Sds011Gate = "cooldown"
       THEN /\ sds_result' = [call |-> "read", value |-> "Timeout",
                              pm25 |-> 0, pm10 |-> 0]
            /\ UNCHANGED << sds_pc, sds_error_count, sds_last_error_age >>
       ELSE /\ sds_result' = [call |-> "read", value |-> "pending",
                              pm25 |-> 0, pm10 |-> 0]
            /\ IF Sds011Gate = "reset"
               THEN sds_error_count' = 0 /\ sds_last_error_age' = -1
               ELSE UNCHANGED << sds_error_count, sds_last_error_age >>
            /\ sds_pc' = IF sds_is_running THEN "discard" ELSE "start"
    /\ UNCHANGED sds_is_running

\* read() called on the driver alone
Sds011ReadCall ==
    /\ Sds011ReadEntry
    /\ UNCHANGED taskVars
    /\ UNCHANGED me2coVars
    /\ UNCHANGED bme280Vars
    /\ UNCHANGED chanVars
    /\ UNCHANGED mgrVars
    /\ UNCHANGED readingVars

\* faulty variant: is_running is set before the start command's result is known
Sds011StartDone_optimistic(outcome) ==
    /\ sds_pc = "start"
    /\ outcome \in {"Ok", "CommunicationError", "Timeout"}
    /\ sds_io' = TRUE
    /\ sds_log' = Append(sds_log, [op |-> "cmd_start", secs |-> 0])
    /\ IF outcome = "Ok"
       THEN /\ sds_is_running' = TRUE
            /\ sds_pc' = "settle"
            /\ UNCHANGED << sds_error_count, sds_last_error_age, sds_result >>
       ELSE /\ Sds011Fail(outcome)
            /\ sds_is_running' = TRUE
    /\ UNCHANGED << sds_elapsed, sds_read_pos, sds_prev, sds_data, sds_discarded >>
    /\ UNCHANGED taskVars
    /\ UNCHANGED me2coVars
    /\ UNCHANGED bme280Vars
    /\ UNCHANGED chanVars
    /\ UNCHANGED mgrVars
    /\ UNCHANGED readingVars

\* cmd_start().await returns: Ok sets is_running and starts the settle timer;
\* Err(e) is counted and returned
Sds011StartDone(outcome) ==
    /\ sds_pc = "start"
    /\ outcome \in {"Ok", "CommunicationError", "Timeout"}
    /\ sds_io' = TRUE
    /\ sds_log' = Append(sds_log, [op |-> "cmd_start", secs |-> 0])
    /\ IF outcome = "Ok"
       THEN /\ sds_is_running' = TRUE
            /\ sds_pc' = "settle"
            /\ UNCHANGED << sds_error_count, sds_last_error_age, sds_result >>
       ELSE /\ Sds011Fail(outcome)
            /\ UNCHANGED sds_is_running
    /\ UNCHANGED << sds_elapsed, sds_read_pos, sds_prev, sds_data, sds_discarded >>
    /\ UNCHANGED taskVars
    /\ UNCHANGED me2coVars
    /\ UNCHANGED bme280Vars
    /\ UNCHANGED chanVars
    /\ UNCHANGED mgrVars
    /\ UNCHANGED readingVars

\* Timer::after(3 s) of a successful start is over: read_measurement begins
\* with its discard loop
Sds011SettleDone ==
    /\ sds_pc = "settle"
    /\ sds_log' = Append(sds_log, [op |-> "Timer::after", secs |-> SDS011_SETTLE_SECS])
    /\ sds_pc' = "discard"
    /\ UNCHANGED << sds_is_running, sds_error_count, sds_last_error_age, sds_result,
                    sds_io >>
    /\ UNCHANGED << sds_elapsed, sds_read_pos, sds_prev, sds_data, sds_discarded >>
    /\ UNCHANGED taskVars
    /\ UNCHANGED me2coVars
    /\ UNCHANGED bme280Vars
    /\ UNCHANGED chanVars
    /\ UNCHANGED mgrVars
    /\ UNCHANGED readingVars

\* one read of the discard loop (10 ms timeout): bytes keep the loop going; no
\* byte in time, Ok(0) or an error end it, and the scan starts its clock
Sds011DiscardRead(outcome, b) ==
    /\ sds_pc = "discard"
    /\ outcome \in {"bytes", "timeout", "error"}
    /\ b \in ScanBytes
    /\ sds_io' = TRUE
    /\ UNCHANGED sds_log
    /\ IF outcome = "bytes"
       THEN /\ sds_discarded' = b
            /\ UNCHANGED sds_pc
       ELSE /\ sds_pc' = "scan"
            /\ UNCHANGED sds_discarded
    /\ UNCHANGED << sds_is_running, sds_error_count, sds_last_error_age, sds_elapsed,
                    sds_read_pos, sds_prev, sds_data, sds_result >>
    /\ UNCHANGED taskVars
    /\ UNCHANGED me2coVars
    /\ UNCHANGED bme280Vars
    /\ UNCHANGED chanVars
    /\ UNCHANGED mgrVars
    /\ UNCHANGED readingVars

\* one read of the scan loop (1 byte, 100 ms timeout): a byte is stored at
\* buffer[read_pos] and tested with its predecessor for the header AA C0; no
\* byte sleeps 10 ms; then the next iteration
Sds011ScanRead(outcome, b) ==
    /\ sds_pc = "scan"
    /\ outcome \in {"byte", "timeout", "error"}
    /\ b \in ScanBytes
    /\ sds_io' = TRUE
    /\ UNCHANGED sds_log
    /\ IF outcome = "byte"
       THEN IF sds_read_pos > 0 /\ sds_prev = 170 /\ b = 192
            THEN /\ sds_pc' = "payload"
                 /\ UNCHANGED << sds_error_count, sds_last_error_age, sds_result >>
                 /\ Sds011Locals(sds_read_pos, b, << >>)
            ELSE /\ Sds011NextIteration
                 /\ Sds011Locals((sds_read_pos + 1) % MAX_READ_SIZE, b, << >>)
       ELSE /\ Sds011NextIteration
            /\ Sds011Locals(sds_read_pos, sds_prev, << >>)
    /\ UNCHANGED << sds_is_running, sds_discarded >>
    /\ UNCHANGED taskVars
    /\ UNCHANGED me2coVars
    /\ UNCHANGED bme280Vars
    /\ UNCHANGED chanVars
    /\ UNCHANGED mgrVars
    /\ UNCHANGED readingVars

\* one read of the payload loop (100 ms timeout): n bytes are stored from
\* data[data_pos] on; with 8 bytes the checksum decides between returning the
\* measurement to read(), which tests its range, and going on scanning; no
\* byte in time or an error abandons the candidate
Sds011PayloadRead(outcome, payload, n) ==
    /\ sds_pc = "payload"
    /\ outcome \in {"bytes", "timeout", "error"}
    /\ sds_io' = TRUE
    /\ UNCHANGED sds_log
    /\ IF outcome = "bytes"
       THEN /\ payload \in Sds011Payloads
            /\ n \in Sds011Chunks
            /\ Len(sds_data) + n <= SDS011_PAYLOAD_LEN
            /\ SubSeq(payload, 1, Len(sds_data)) = sds_data
            /\ LET data == SubSeq(payload, 1, Len(sds_data) + n)
               IN  IF Len(data) < SDS011_PAYLOAD_LEN
                   THEN /\ UNCHANGED << sds_pc, sds_error_count,
                                        sds_last_error_age, sds_result >>
                        /\ Sds011Locals(sds_read_pos, sds_prev, data)
                   ELSE IF checksum_valid(data)
                   THEN /\ IF in_range(pm25_raw(data)) /\ in_range(pm10_raw(data))
                           THEN /\ sds_error_count' = 0
                                /\ sds_result' = [call |-> "read", value |-> "Ok",
                                                  pm25 |-> pm25_raw(data),
                                                  pm10 |-> pm10_raw(data)]
                                /\ sds_pc' = "ready"
                                /\ UNCHANGED sds_last_error_age
                           ELSE Sds011Fail("InvalidData")
                        /\ Sds011Locals(sds_read_pos, sds_prev, data)
                   ELSE /\ Sds011NextIteration
                        /\ Sds011Locals((sds_read_pos + 1) % MAX_READ_SIZE,
                                        sds_prev, << >>)
       ELSE /\ payload = << >>
            /\ n = 0
            /\ Sds011NextIteration
            /\ Sds011Locals((sds_read_pos + 1) % MAX_READ_SIZE, sds_prev, << >>)
    /\ UNCHANGED << sds_is_running, sds_discarded >>
    /\ UNCHANGED taskVars
    /\ UNCHANGED me2coVars
    /\ UNCHANGED bme280Vars
    /\ UNCHANGED chanVars
    /\ UNCHANGED mgrVars
    /\ UNCHANGED readingVars

\* time passes while read_measurement scans
Sds011TimePasses(e) ==
    /\ sds_pc \in {"scan", "payload"}
    /\ e \in ScanElapsedSamples
    /\ e > sds_elapsed
    /\ sds_elapsed' = e
    /\ UNCHANGED << sds_pc, sds_is_running, sds_error_count, sds_last_error_age,
                    sds_read_pos, sds_prev, sds_data, sds_discarded, sds_io,
                    sds_log, sds_result >>
    /\ UNCHANGED taskVars
    /\ UNCHANGED me2coVars
    /\ UNCHANGED bme280Vars
    /\ UNCHANGED chanVars
    /\ UNCHANGED mgrVars
    /\ UNCHANGED readingVars

\* time passes between two calls
Sds011ClockAdvances(a) ==
    /\ sds_pc = "ready"
    /\ sds_last_error_age # -1
    /\ a \in AgeSamples
    /\ a > sds_last_error_age
    /\ sds_last_error_age' = a
    /\ UNCHANGED << sds_pc, sds_is_running, sds_error_count, sds_elapsed,
                    sds_read_pos, sds_prev, sds_data, sds_discarded, sds_io,
                    sds_log, sds_result >>
    /\ UNCHANGED taskVars
    /\ UNCHANGED me2coVars
    /\ UNCHANGED bme280Vars
    /\ UNCHANGED chanVars
    /\ UNCHANGED mgrVars
    /\ UNCHANGED readingVars

\* what the driver does by itself, given what the UART hands it
Sds011Driver ==
    \/ /\ ~initialized["SDS011"]
       /\ \E outcome \in {"Ok", "CommunicationError", "Timeout"} : Sds011InitCall(outcome)
    \/ Sds011ReadCall
    \/ \E outcome \in {"Ok", "CommunicationError", "Timeout"} : Sds011StartDone(outcome)
    \/ Sds011SettleDone
    \/ \E outcome \in {"bytes", "timeout", "error"}, b \in ScanBytes :
           Sds011DiscardRead(outcome, b)
    \/ \E outcome \in {"byte", "timeout", "error"}, b \in ScanBytes :
           Sds011ScanRead(outcome, b)
    \/ \E payload \in Sds011Payloads, n \in Sds011Chunks :
           Sds011PayloadRead("bytes", payload, n)
    \/ \E outcome \in {"timeout", "error"} : Sds011PayloadRead(outcome, << >>, 0)

\* the clocks
Sds011Time ==
    \/ \E e \in ScanElapsedSamples : Sds011TimePasses(e)
    \/ \E a \in AgeSamples : Sds011ClockAdvances(a)

\* the SDS011 driver called as the acquisition loop may call it
NextSds011 == Sds011Driver \/ Sds011Time

SpecSds011 == Init /\ [][NextSds011]_vars

\* the same with a task that is scheduled and clocks that advance
SpecSds011Fair ==
    /\ SpecSds011
    /\ WF_vars(Sds011Driver)
    /\ WF_vars(Sds011Time)

(***************************************************************************)
(* The SDS011 driver under sensor_task_impl: the loop calls read(), the    *)
(* driver runs step by step, the loop counts the result and sleeps (the    *)
(* interval, or 60 s from the fourth consecutive error on), and the time   *)
(* slept ages the driver's last_error_time.  The time a read() itself      *)
(* takes is left out, so the age at the next call is a lower bound.        *)
(***************************************************************************)
\* the loop calls sensor.read()
Sds011LoopRead ==
    /\ pc["SDS011"] = "read"
    /\ consecutive_errors["SDS011"] < MaxLoopErrors
    /\ Sds011ReadEntry
    /\ pc' = [pc EXCEPT !["SDS011"] = "in_read"]
    /\ UNCHANGED << initialized, consecutive_errors, sleeping, init_error, me2co_rx >>
    /\ UNCHANGED me2coVars
    /\ UNCHANGED bme280Vars
    /\ UNCHANGED chanVars
    /\ UNCHANGED mgrVars
    /\ UNCHANGED readingVars

\* read() has returned: the match on its result, then the timer
Sds011LoopReturn ==
    /\ pc["SDS011"] = "in_read"
    /\ sds_pc = "ready"
    /\ IF sds_result.value = "Ok"
       THEN next_serial < MaxReadings /\ OnReadOk("SDS011")
       ELSE OnReadErr("SDS011")
    /\ UNCHANGED << initialized, init_error, me2co_rx >>
    /\ UNCHANGED mgrVars
    /\ UNCHANGED readingVars
    /\ UNCHANGED drvVars

\* Timer::after(interval) or Timer::after(60 s) fires after the seconds it was
\* set to: last_error.elapsed() has grown by as much
Sds011LoopWake ==
    /\ pc["SDS011"] \in {"interval", "backoff"}
    /\ pc' = [pc EXCEPT !["SDS011"] = "read"]
    /\ sleeping' = [sleeping EXCEPT !["SDS011"] = 0]
    /\ sds_last_error_age' =
           IF sds_last_error_age = -1
           THEN -1
           ELSE Min(sds_last_error_age + sleeping["SDS011"], MaxAge)
    /\ UNCHANGED << sds_pc, sds_is_running, sds_error_count, sds_elapsed,
                    sds_read_pos, sds_prev, sds_data, sds_discarded, sds_io,
                    sds_log, sds_result >>
    /\ UNCHANGED << initialized, consecutive_errors, init_error, me2co_rx >>
    /\ UNCHANGED me2coVars
    /\ UNCHANGED bme280Vars
    /\ UNCHANGED chanVars
    /\ UNCHANGED mgrVars
    /\ UNCHANGED readingVars

\* the task of the SDS011 with its driver inside
NextSds011Loop ==
    \/ InitOk("SDS011")
    \/ \E e \in InitErrors("SDS011") : InitErr("SDS011", e)
    \/ InitRetryWake("SDS011")
    \/ WarmUpDone("SDS011")
    \/ Sds011LoopRead
    \/ \E outcome \in {"Ok", "CommunicationError", "Timeout"} : Sds011StartDone(outcome)
    \/ Sds011SettleDone
    \/ \E outcome \in {"bytes", "timeout", "error"}, b \in ScanBytes :
           Sds011DiscardRead(outcome, b)
    \/ /\ sds_read_pos < MaxScanned
       /\ \E b \in ScanBytes : Sds011ScanRead("byte", b)
    \/ \E outcome \in {"timeout", "error"} : Sds011ScanRead(outcome, 0)
    \/ \E payload \in Sds011Payloads, n \in Sds011Chunks :
           Sds011PayloadRead("bytes", payload, n)
    \/ \E outcome \in {"timeout", "error"} : Sds011PayloadRead(outcome, << >>, 0)
    \/ \E e \in ScanElapsedSamples : Sds011TimePasses(e)
    \/ Sds011LoopReturn
    \/ Sds011LoopWake

SpecSds011Loop == Init /\ [][NextSds011Loop]_vars

(***************************************************************************)
(* Bme280Sensor::read step by step: the driver called directly.  Every bus *)
(* operation is wrapped in a 100 ms with_timeout.  The compensated values  *)
(* are kept in the integer units the compensation functions compute before *)
(* their final division: temperature in 1/100 degC, humidity in 1/1024 %RH *)
(* (compensate_humidity clamps it to 0..100 %RH), pressure in 1/25600 hPa. *)
(* init() is followed transaction by transaction.                          *)
(***************************************************************************)
TEMPERATURE_MIN == -4000
TEMPERATURE_MAX == 8500
HUMIDITY_MIN == 0
HUMIDITY_MAX == 102400
PRESSURE_MIN == 7680000
PRESSURE_MAX == 28160000

\* compensated temperatures the device can lead to: -41, -40, 25, 85, 85.01, 95 degC
TemperatureSamples == {-4100, -4000, 2500, 8500, 8501, 9500}

\* the t_fine values that give these temperatures
TFineSamples == {-209920, -204800, 128000, 435200, 435251, 486400}

\* compensated humidities: the clamp's two ends and 50 %RH
HumiditySamples == {0, 51200, 102400}

\* compensated pressures: 0 (the division guard), 299, 300, 1000, 1100, 1101 hPa
PressureSamples == {0, 7654400, 7680000, 25600000, 28160000, 28185600}

\* Option<f32>
None == << >>
Some(x) == << x >>

temp_valid(temperature) ==
    temperature >= TEMPERATURE_MIN /\ temperature <= TEMPERATURE_MAX

hum_valid(humidity) ==
    humidity >= HUMIDITY_MIN /\ humidity <= HUMIDITY_MAX

press_valid(pressure) ==
    pressure >= PRESSURE_MIN /\ pressure <= PRESSURE_MAX

\* faulty variant: a partly valid measurement is graded Degraded
quality_graded(temperature, humidity, pressure) ==
    IF temp_valid(temperature) /\ hum_valid(humidity) /\ press_valid(pressure)
    THEN "Good"
    ELSE IF temp_valid(temperature) \/ press_valid(pressure)
         THEN "Degraded"
         ELSE "Bad"

quality(temperature, humidity, pressure) ==
    IF temp_valid(temperature) /\ hum_valid(humidity) /\ press_valid(pressure)
    THEN "Good"
    ELSE "Bad"

\* the Ok arm of read(): SensorReading::new(BME280, Environmental {..}, quality)
Bme280Reading(temperature, humidity, pressure) ==
    [call |-> "read", value |-> "Ok",
     temperature |-> IF temp_valid(temperature) THEN Some(temperature) ELSE None,
     humidity |-> IF hum_valid(humidity) THEN Some(humidity) ELSE None,
     pressure |-> IF press_valid(pressure) THEN Some(pressure) ELSE None,
     gas_resistance |-> None,
     quality |-> quality(temperature, humidity, pressure)]

BME280_ADDRESS_PRIMARY == 118
BME280_ADDRESS_SECONDARY == 119
BME280_CHIP_ID == 96
BME280_REG_CHIP_ID == 208
BME280_REG_CTRL_HUM == 242
BME280_REG_CTRL_MEAS == 244
BME280_REG_CONFIG == 245
BME280_REG_PRESS_MSB == 247
BME280_REG_DIG_T1 == 136
BME280_REG_DIG_H1 == 161
BME280_REG_DIG_H2 == 225

\* what the chip-ID register of a device at the probed address can hold: a
\* BME280, a BMP280, a BME680, and 0
ChipIds == {96, 88, 97, 0}

\* outcomes of one bus transaction under its 100 ms with_timeout
BusOutcomes == {"Ok", "CommunicationError", "Timeout"}

\* read_register / read_registers: `len` bytes from `register`
BusRead(register, len) ==
    [op |-> "read", address |-> bme_address, register |-> register, len |-> len]

\* write_register: `value` to `register`
BusWrite(register, value) ==
    [op |-> "write", address |-> bme_address, register |-> register, len |-> value]

\* the positions of init() after find_sensor, in program order: read_calibration
\* (three reads) and configure_sensor (three writes)
InitSequence ==
    << "calibration_tp", "calibration_h1", "calibration_h2",
       "ctrl_hum", "ctrl_meas", "config" >>

\* the bus transaction init() awaits at each of these positions
InitTransaction(position) ==
    CASE position = "calibration_tp" -> BusRead(BME280_REG_DIG_T1, 24)
      [] position = "calibration_h1" -> BusRead(BME280_REG_DIG_H1, 1)
      [] position = "calibration_h2" -> BusRead(BME280_REG_DIG_H2, 7)
      [] position = "ctrl_hum"       -> BusWrite(BME280_REG_CTRL_HUM, 1)
      [] position = "ctrl_meas"      -> BusWrite(BME280_REG_CTRL_MEAS, 37)
      [] position = "config"         -> BusWrite(BME280_REG_CONFIG, 160)

\* index of a position in InitSequence
InitIndex(position) ==
    CHOOSE i \in 1..Len(InitSequence) : InitSequence[i] = position

\* the frame of every step of the BME280 driver
Bme280Frame ==
    /\ UNCHANGED << pc, consecutive_errors, sleeping, init_error, me2co_rx >>
    /\ UNCHANGED compensationVars
    /\ UNCHANGED chanVars
    /\ UNCHANGED me2coVars
    /\ UNCHANGED sds011Vars
    /\ UNCHANGED mgrVars
    /\ UNCHANGED readingVars

\* Bme280Sensor::init up to the first probe: scan_i2c_bus (which reports nothing
\* and always returns Ok) and the choice of the primary address
Bme280InitCall ==
    /\ bme_pc = "ready"
    /\ bme_pc' = "probe_primary"
    /\ bme_address' = BME280_ADDRESS_PRIMARY
    /\ bme_log' = << >>
    /\ bme_result' = [call |-> "init", value |-> "pending"]
    /\ UNCHANGED << initialized, bme_compensated >>
    /\ Bme280Frame

\* faulty variant: the secondary address is accepted whatever it answers
Bme280Probe_trusting(outcome, chip_id) ==
    /\ bme_pc \in {"probe_primary", "probe_secondary"}
    /\ outcome \in BusOutcomes
    /\ bme_log' = Append(bme_log, BusRead(BME280_REG_CHIP_ID, 1))
    /\ IF (outcome = "Ok" /\ chip_id = BME280_CHIP_ID) \/ bme_pc = "probe_secondary"
       THEN /\ bme_pc' = InitSequence[1]
            /\ UNCHANGED << bme_address, bme_result >>
       ELSE /\ bme_pc' = "probe_secondary"
            /\ bme_address' = BME280_ADDRESS_SECONDARY
            /\ UNCHANGED bme_result
    /\ UNCHANGED << initialized, bme_compensated >>
    /\ Bme280Frame

\* find_sensor: the read of the chip-ID register at the current address
Bme280Probe(outcome, chip_id) ==
    /\ bme_pc \in {"probe_primary", "probe_secondary"}
    /\ outcome \in BusOutcomes
    /\ bme_log' = Append(bme_log, BusRead(BME280_REG_CHIP_ID, 1))
    /\ IF outcome = "Ok" /\ chip_id = BME280_CHIP_ID
       THEN /\ bme_pc' = InitSequence[1]
            /\ UNCHANGED << bme_address, bme_result >>
       ELSE IF bme_pc = "probe_primary"
            THEN /\ bme_pc' = "probe_secondary"
                 /\ bme_address' = BME280_ADDRESS_SECONDARY
                 /\ UNCHANGED bme_result
            ELSE /\ bme_pc' = "ready"
                 /\ bme_result' = [call |-> "init", value |-> "HardwareFailure"]
                 /\ UNCHANGED bme_address
    /\ UNCHANGED << initialized, bme_compensated >>
    /\ Bme280Frame

\* faulty variant: a failed step is skipped and init() goes on
Bme280InitStep_lenient(outcome) ==
    /\ \E i \in 1..Len(InitSequence) : bme_pc = InitSequence[i]
    /\ outcome \in BusOutcomes
    /\ bme_log' = Append(bme_log, InitTransaction(bme_pc))
    /\ IF InitIndex(bme_pc) < Len(InitSequence)
       THEN /\ bme_pc' = InitSequence[InitIndex(bme_pc) + 1]
            /\ UNCHANGED << initialized, bme_result >>
       ELSE /\ bme_pc' = "ready"
            /\ initialized' = [initialized EXCEPT !["BME280"] = TRUE]
            /\ bme_result' = [call |-> "init", value |-> "Ok"]
    /\ UNCHANGED << bme_address, bme_compensated >>
    /\ Bme280Frame

\* read_calibration and configure_sensor: the transaction at the current
\* position; `?` returns its error, the last success sets initialized
Bme280InitStep(outcome) ==
    /\ \E i \in 1..Len(InitSequence) : bme_pc = InitSequence[i]
    /\ outcome \in BusOutcomes
    /\ bme_log' = Append(bme_log, InitTransaction(bme_pc))
    /\ IF outcome # "Ok"
       THEN /\ bme_pc' = "ready"
            /\ bme_result' = [call |-> "init", value |-> outcome]
            /\ UNCHANGED initialized
       ELSE IF InitIndex(bme_pc) < Len(InitSequence)
            THEN /\ bme_pc' = InitSequence[InitIndex(bme_pc) + 1]
                 /\ UNCHANGED << initialized, bme_result >>
            ELSE /\ bme_pc' = "ready"
                 /\ initialized' = [initialized EXCEPT !["BME280"] = TRUE]
                 /\ bme_result' = [call |-> "init", value |-> "Ok"]
    /\ UNCHANGED << bme_address, bme_compensated >>
    /\ Bme280Frame

\* faulty variant: read() without the initialized test
Bme280ReadCall_unchecked(outcome) ==
    /\ bme_pc = "ready"
    /\ outcome \in {"written"} \union ReadErrors("BME280")
    /\ IF outcome = "written"
       THEN /\ bme_pc' = "measure"
            /\ bme_result' = [call |-> "read", value |-> "pending"]
       ELSE /\ bme_pc' = "ready"
            /\ bme_result' = [call |-> "read", value |-> outcome]
    /\ bme_log' = << BusWrite(BME280_REG_CTRL_MEAS, 37) >>
    /\ UNCHANGED << bme_compensated, bme_address >>
    /\ UNCHANGED compensationVars
    /\ UNCHANGED taskVars
    /\ UNCHANGED chanVars
    /\ UNCHANGED me2coVars
    /\ UNCHANGED sds011Vars
    /\ UNCHANGED mgrVars
    /\ UNCHANGED readingVars

\* read() up to the 50 ms timer: the initialized test and the write of the
\* forced-mode command
Bme280ReadCall(outcome) ==
    /\ bme_pc = "ready"
    /\ IF ~initialized["BME280"]
       THEN outcome = "NotInitialized"
       ELSE outcome \in {"written"} \union ReadErrors("BME280")
    /\ IF outcome = "written"
       THEN /\ bme_pc' = "measure"
            /\ bme_result' = [call |-> "read", value |-> "pending"]
       ELSE /\ bme_pc' = "ready"
            /\ bme_result' = [call |-> "read", value |-> outcome]
    /\ bme_log' = IF outcome = "NotInitialized"
                  THEN << >>
                  ELSE << BusWrite(BME280_REG_CTRL_MEAS, 37) >>
    /\ UNCHANGED << bme_compensated, bme_address >>
    /\ UNCHANGED compensationVars
    /\ UNCHANGED taskVars
    /\ UNCHANGED chanVars
    /\ UNCHANGED me2coVars
    /\ UNCHANGED sds011Vars
    /\ UNCHANGED mgrVars
    /\ UNCHANGED readingVars

\* the rest of read(): the 8 data registers are read and compensated
\* (compensate_temperature assigns t_fine and returns (t_fine * 5 + 128) >> 8),
\* and the three values are validated one by one
Bme280MeasureDone(outcome, temperature, humidity, pressure) ==
    /\ bme_pc = "measure"
    /\ bme_pc' = "ready"
    /\ bme_log' = Append(bme_log, BusRead(BME280_REG_PRESS_MSB, 8))
    /\ UNCHANGED bme_address
    /\ UNCHANGED << bme_calibration, bme_compensation >>
    /\ IF outcome = "data"
       THEN /\ \E fine \in TFineSamples :
                   /\ temperature = (fine * 5 + 128) \div 256
                   /\ t_fine' = fine
            /\ bme_compensated' = [temperature |-> temperature,
                                   humidity |-> humidity, pressure |-> pressure]
            /\ bme_result' = Bme280Reading(temperature, humidity, pressure)
       ELSE /\ outcome \in ReadErrors("BME280")
            /\ bme_result' = [call |-> "read", value |-> outcome]
            /\ UNCHANGED << t_fine, bme_compensated >>
    /\ UNCHANGED taskVars
    /\ UNCHANGED chanVars
    /\ UNCHANGED me2coVars
    /\ UNCHANGED sds011Vars
    /\ UNCHANGED mgrVars
    /\ UNCHANGED readingVars

\* the BME280 driver called as the acquisition loop may call it (init() until it
\* returns Ok, read() at any time)
NextBme280 ==
    \/ /\ ~initialized["BME280"]
       /\ Bme280InitCall
    \/ \E outcome \in BusOutcomes, chip_id \in ChipIds : Bme280Probe(outcome, chip_id)
    \/ \E outcome \in BusOutcomes : Bme280InitStep(outcome)
    \/ \E outcome \in {"written", "NotInitialized"} \union ReadErrors("BME280") :
           Bme280ReadCall(outcome)
    \/ \E temperature \in TemperatureSamples, humidity \in HumiditySamples,
          pressure \in PressureSamples :
           Bme280MeasureDone("data", temperature, humidity, pressure)
    \/ \E outcome \in ReadErrors("BME280") : Bme280MeasureDone(outcome, 0, 0, 0)

SpecBme280 == Init /\ [][NextBme280]_vars

(***************************************************************************)
(* Bme280Sensor::compensate_temperature on the calibration the device      *)
(* delivered.  The arithmetic is the code's: u16 for `dig_t1 << 1`, i32    *)
(* for the rest.  An i32 multiplication that overflows panics in a build   *)
(* with overflow checks and wraps in a build without them; both outcomes   *)
(* are steps of the model.                                                 *)
(***************************************************************************)
I32_MAX == 2147483647
I32_MIN == -2147483647 - 1
I32_HALF == 1073741824
U16_MODULUS == 65536

\* calibration words the device can deliver: u16 for dig_T1, i16 for dig_T2/T3
DigT1Samples == {0, 27504, 32767, 32768, 40000, 65535}
DigT2Samples == {-32768, 1, 26435, 32767}
DigT3Samples == {-1000, 0, 50, 32767}

\* raw 20-bit temperature words
AdcTSamples == {0, 415148, 519888, 1048575}

\* i32::wrapping_add
wrapping_add_i32(x, y) ==
    IF y >= 0
    THEN IF x > I32_MAX - y
         THEN (((x - I32_HALF) - I32_HALF) + y) - I32_HALF - I32_HALF
         ELSE x + y
    ELSE IF x < I32_MIN - y
         THEN (((x + I32_HALF) + I32_HALF) + y) + I32_HALF + I32_HALF
         ELSE x + y

\* i32::wrapping_neg
wrapping_neg(x) == IF x = I32_MIN THEN x ELSE -x

\* the low 16 bits of x * y for 16-bit words x and y; every product stays
\* below 2^24
mul_low16(x, y) ==
    (x * (y % 256) + 256 * ((x * (y \div 256)) % 256)) % U16_MODULUS

\* i32::wrapping_mul: the low 32 bits of the product, from the 16-bit halves
\* of the two's complement operands
wrapping_mul(a, b) ==
    LET a0 == a % U16_MODULUS
        a1 == (a \div U16_MODULUS) % U16_MODULUS
        b0 == b % U16_MODULUS
        b1 == (b \div U16_MODULUS) % U16_MODULUS
        t0 == a0 * (b0 % 256)
        t1 == a0 * (b0 \div 256)
        low == t0 + 256 * (t1 % 256)
        carry == (low \div U16_MODULUS) + (t1 \div 256)
        high == (carry + mul_low16(a0, b1) + mul_low16(a1, b0)) % U16_MODULUS
    IN  IF high >= 32768
        THEN (high - U16_MODULUS) * U16_MODULUS + (low % U16_MODULUS)
        ELSE high * U16_MODULUS + (low % U16_MODULUS)

Abs(x) == IF x < 0 THEN -x ELSE x

\* a * b does not fit an i32
mul_overflows(a, b) ==
    /\ a # 0
    /\ b # 0
    /\ IF a = I32_MIN THEN b # 1
       ELSE IF b = I32_MIN THEN a # 1
       ELSE IF (a < 0) = (b < 0)
       THEN Abs(a) > I32_MAX \div Abs(b)
       ELSE -Abs(a) < (I32_MIN + Abs(b) - 1) \div Abs(b)

\* x >> k on an i32: arithmetic shift
shr(x, k) == x \div (2 ^ k)

\* x << k on a u16: the bits shifted out are lost
shl_u16(x, k) == (x * (2 ^ k)) % U16_MODULUS

\* compensate_temperature: var1; `dig_t1 << 1` is a u16 shift
var1(adc_t) ==
    shr(wrapping_mul(shr(adc_t, 3) - shl_u16(bme_calibration.dig_t1, 1),
                     bme_calibration.dig_t2), 11)

\* compensate_temperature: var2
var2(adc_t) ==
    shr(wrapping_mul(shr(wrapping_mul(shr(adc_t, 4) - bme_calibration.dig_t1,
                                      shr(adc_t, 4) - bme_calibration.dig_t1), 12),
                     bme_calibration.dig_t3), 14)

\* one of the multiplications of compensate_temperature overflows
temperature_overflows(adc_t) ==
    \/ mul_overflows(shr(adc_t, 3) - shl_u16(bme_calibration.dig_t1, 1),
                     bme_calibration.dig_t2)
    \/ mul_overflows(shr(adc_t, 4) - bme_calibration.dig_t1,
                     shr(adc_t, 4) - bme_calibration.dig_t1)
    \/ mul_overflows(shr(wrapping_mul(shr(adc_t, 4) - bme_calibration.dig_t1,
                                      shr(adc_t, 4) - bme_calibration.dig_t1), 12),
                     bme_calibration.dig_t3)

\* read_calibration storing the temperature words of the 24-byte block
read_calibration(dig_t1, dig_t2, dig_t3) ==
    /\ bme_calibration' = [bme_calibration EXCEPT !.dig_t1 = dig_t1, !.dig_t2 = dig_t2,
                                                  !.dig_t3 = dig_t3]
    /\ bme_compensation' = [call |-> "read_calibration", adc |-> 0, outcome |-> "value", value |-> 0]
    /\ UNCHANGED t_fine
    /\ UNCHANGED << bme_pc, bme_compensated, bme_result, bme_address, bme_log >>
    /\ UNCHANGED << pc, initialized, consecutive_errors, sleeping, init_error, me2co_rx >>
    /\ UNCHANGED chanVars
    /\ UNCHANGED me2coVars
    /\ UNCHANGED sds011Vars
    /\ UNCHANGED mgrVars
    /\ UNCHANGED readingVars

\* compensate_temperature(adc_t): returns hundredths of a degree, or panics
compensate_temperature(adc_t, outcome) ==
    /\ outcome \in {"value", "panic"}
    /\ outcome = "panic" => temperature_overflows(adc_t)
    /\ IF outcome = "panic"
       THEN /\ bme_compensation' =
                   [call |-> "compensate_temperature", adc |-> adc_t,
                    outcome |-> "panic", value |-> 0]
            /\ UNCHANGED t_fine
       ELSE /\ t_fine' = wrapping_add_i32(var1(adc_t), var2(adc_t))
            /\ bme_compensation' =
                   [call |-> "compensate_temperature", adc |-> adc_t,
                    outcome |-> "value",
                    value |-> shr(wrapping_add_i32(wrapping_mul(t_fine', 5), 128), 8)]
    /\ UNCHANGED bme_calibration
    /\ UNCHANGED << bme_pc, bme_compensated, bme_result, bme_address, bme_log >>
    /\ UNCHANGED << pc, initialized, consecutive_errors, sleeping, init_error, me2co_rx >>
    /\ UNCHANGED chanVars
    /\ UNCHANGED me2coVars
    /\ UNCHANGED sds011Vars
    /\ UNCHANGED mgrVars
    /\ UNCHANGED readingVars

\* the compensation applied to any calibration and any raw word
NextCompensation ==
    \/ \E dig_t1 \in DigT1Samples, dig_t2 \in DigT2Samples, dig_t3 \in DigT3Samples :
           read_calibration(dig_t1, dig_t2, dig_t3)
    \/ \E adc_t \in AdcTSamples, outcome \in {"value", "panic"} :
           compensate_temperature(adc_t, outcome)

SpecCompensation == Init /\ [][NextCompensation]_vars

(***************************************************************************)
(* Bme280Sensor::compensate_humidity on the humidity calibration as        *)
(* read_calibration assembles it from the registers 0xA1 and 0xE1..0xE7,   *)
(* and on the t_fine compensate_temperature left.  i32 arithmetic as the   *)
(* code does it: an operation that overflows panics in a build with        *)
(* overflow checks and wraps in a build without them.                      *)
(***************************************************************************)
\* register 0xA1 (dig_H1)
DigH1Samples == {0, 75, 255}

\* registers 0xE1..0xE7 as the device delivers them
HBufSamples == { << 111, 1, 0, 18, 45, 3, 30 >>,
                 << 0, 0, 0, 0, 0, 0, 0 >>,
                 << 255, 127, 255, 255, 255, 255, 128 >> }

\* raw 16-bit humidity words
AdcHSamples == {0, 30000, 65535}

\* temperature calibrations and raw words that set t_fine for the humidity
HumidityDigT3Samples == {-1000, 50}

\* i16::from_le_bytes
i16_from_le_bytes(lo, hi) ==
    IF lo + 256 * hi >= 32768 THEN lo + 256 * hi - U16_MODULUS ELSE lo + 256 * hi

\* `b as i8`
as_i8(b) == IF b >= 128 THEN b - 256 ELSE b

\* x + y does not fit an i32
add_overflows(x, y) ==
    IF y >= 0 THEN x > I32_MAX - y ELSE x < I32_MIN - y

\* i32::wrapping_sub
wrapping_sub(x, y) == wrapping_add_i32(x, wrapping_neg(y))

\* x - y does not fit an i32
sub_overflows(x, y) ==
    IF y = I32_MIN THEN x >= 0 ELSE add_overflows(x, -y)

\* read_calibration storing the humidity words: dig_h1 from 0xA1, the rest from
\* the 7 bytes at 0xE1
read_calibration_humidity(h1, h_buf) ==
    /\ bme_calibration' =
           [bme_calibration EXCEPT
               !.dig_h1 = h1,
               !.dig_h2 = i16_from_le_bytes(h_buf[1], h_buf[2]),
               !.dig_h3 = h_buf[3],
               !.dig_h4 = h_buf[4] * 16 + (h_buf[5] % 16),
               !.dig_h5 = h_buf[6] * 16 + (h_buf[5] \div 16),
               !.dig_h6 = as_i8(h_buf[7])]
    /\ bme_compensation' = [call |-> "read_calibration", adc |-> 0, outcome |-> "value", value |-> 0]
    /\ UNCHANGED t_fine
    /\ UNCHANGED << bme_pc, bme_compensated, bme_result, bme_address, bme_log >>
    /\ UNCHANGED << pc, initialized, consecutive_errors, sleeping, init_error, me2co_rx >>
    /\ UNCHANGED chanVars
    /\ UNCHANGED me2coVars
    /\ UNCHANGED sds011Vars
    /\ UNCHANGED mgrVars
    /\ UNCHANGED readingVars

\* the intermediate values of compensate_humidity when self.t_fine is `fine`,
\* each as the i32 a build without overflow checks holds, and whether an
\* operation overflowed
humidity_vars(fine, adc_h) ==
    LET c == bme_calibration
        v_x1_u32r == wrapping_sub(fine, 76800)
        h5_v == wrapping_mul(c.dig_h5, v_x1_u32r)
        h4_h5 == wrapping_add_i32(c.dig_h4 * 4096, h5_v)
        h_var1 == wrapping_sub(adc_h, h4_h5)
        sq == wrapping_mul(shr(v_x1_u32r, 15), shr(v_x1_u32r, 15))
        h_var2 == shr(sq, 7)
        h_var3 == shr(wrapping_mul(h_var2, c.dig_h1), 4)
        h_var4 == shr(wrapping_mul(h_var1, c.dig_h3), 14)
        h_var5 == shr(wrapping_mul(h_var2, c.dig_h6), 4)
        h_var6 == wrapping_mul(h_var4, h_var5)
        sum36 == wrapping_add_i32(h_var3, h_var6)
        sum == wrapping_add_i32(sum36, 134217728)
        h_var7 == shr(wrapping_mul(h_var1, sum), 10)
        h_var8 == shr(wrapping_mul(h_var7, c.dig_h2 + 65536), 13)
        sq8 == wrapping_mul(shr(h_var8, 15), shr(h_var8, 15))
        q25 == wrapping_mul(shr(sq8, 7), 25)
        h_var9 == wrapping_sub(h_var8, shr(q25, 9))
    IN  [ v_x1_u32r |-> v_x1_u32r,
          h_var9 |-> h_var9,
          overflow |->
              \/ sub_overflows(fine, 76800)
              \/ mul_overflows(c.dig_h5, v_x1_u32r)
              \/ add_overflows(c.dig_h4 * 4096, h5_v)
              \/ sub_overflows(adc_h, h4_h5)
              \/ mul_overflows(shr(v_x1_u32r, 15), shr(v_x1_u32r, 15))
              \/ mul_overflows(h_var2, c.dig_h1)
              \/ mul_overflows(h_var1, c.dig_h3)
              \/ mul_overflows(h_var2, c.dig_h6)
              \/ mul_overflows(h_var4, h_var5)
              \/ add_overflows(h_var3, h_var6)
              \/ add_overflows(sum36, 134217728)
              \/ mul_overflows(h_var1, sum)
              \/ mul_overflows(h_var7, c.dig_h2 + 65536)
              \/ mul_overflows(shr(h_var8, 15), shr(h_var8, 15))
              \/ mul_overflows(shr(sq8, 7), 25)
              \/ sub_overflows(h_var8, shr(q25, 9)) ]

\* the clamp of compensate_humidity and its `>> 12`: 1/1024 %RH
humidity_clamped(h_var9) ==
    LET h_floor == IF h_var9 < 0 THEN 0 ELSE h_var9
        h_final == IF h_floor > 419430400 THEN 419430400 ELSE h_floor
    IN  shr(h_final, 12)

\* what compensate_humidity returns for adc_h when self.t_fine is `fine`, in a
\* build without overflow checks: 1/1024 %RH
humidity_value(fine, adc_h) ==
    IF humidity_vars(fine, adc_h).v_x1_u32r = 0
    THEN 0
    ELSE humidity_clamped(humidity_vars(fine, adc_h).h_var9)

\* compensate_humidity(adc_h) has an operation that overflows when self.t_fine
\* is `fine`
humidity_overflows(fine, adc_h) ==
    \/ sub_overflows(fine, 76800)
    \/ humidity_vars(fine, adc_h).v_x1_u32r # 0 /\ humidity_vars(fine, adc_h).overflow

\* compensate_humidity(adc_h): returns 1/1024 %RH, or panics
compensate_humidity(adc_h, outcome) ==
    /\ outcome \in {"value", "panic"}
    /\ outcome = "panic" => humidity_overflows(t_fine, adc_h)
    /\ bme_compensation' =
           [call |-> "compensate_humidity", adc |-> adc_h, outcome |-> outcome,
            value |-> IF outcome = "panic" THEN 0 ELSE humidity_value(t_fine, adc_h)]
    /\ UNCHANGED << bme_calibration, t_fine >>
    /\ UNCHANGED << bme_pc, bme_compensated, bme_result, bme_address, bme_log >>
    /\ UNCHANGED << pc, initialized, consecutive_errors, sleeping, init_error, me2co_rx >>
    /\ UNCHANGED chanVars
    /\ UNCHANGED me2coVars
    /\ UNCHANGED sds011Vars
    /\ UNCHANGED mgrVars
    /\ UNCHANGED readingVars

\* the humidity compensation applied to any humidity calibration, any t_fine
\* the temperature compensation leaves and any raw word
NextHumidity ==
    \/ \E dig_t3 \in HumidityDigT3Samples : read_calibration(27504, 26435, dig_t3)
    \/ \E h1 \in DigH1Samples, h_buf \in HBufSamples : read_calibration_humidity(h1, h_buf)
    \/ \E adc_t \in AdcTSamples, outcome \in {"value", "panic"} :
           compensate_temperature(adc_t, outcome)
    \/ \E adc_h \in AdcHSamples, outcome \in {"value", "panic"} :
           compensate_humidity(adc_h, outcome)

SpecHumidity == Init /\ [][NextHumidity]_vars

(***************************************************************************)
(* Bme280Sensor::read on raw words: read_compensated_data reads the 8 data *)
(* registers and runs compensate_temperature, compensate_pressure and      *)
(* compensate_humidity in that order (bme280.rs:229-232) on the            *)
(* calibration init() stored.  Temperature and humidity are computed as    *)
(* the code computes them; the pressure, which the code computes in i64,   *)
(* is one of PressureSamples.                                              *)
(***************************************************************************)
\* faulty variant: the humidity is compensated before the temperature, with the
\* t_fine the previous read left
Bme280MeasureRaw_stale(outcome, temp_raw, hum_raw, pressure) ==
    LET fine == wrapping_add_i32(var1(temp_raw), var2(temp_raw))
        temperature == shr(wrapping_add_i32(wrapping_mul(fine, 5), 128), 8)
        humidity == humidity_value(t_fine, hum_raw)
    IN  /\ bme_pc = "measure"
        /\ bme_log' = Append(bme_log, BusRead(BME280_REG_PRESS_MSB, 8))
        /\ UNCHANGED << bme_address, bme_calibration >>
        /\ IF outcome \in ReadErrors("BME280")
           THEN /\ bme_pc' = "ready"
                /\ bme_result' = [call |-> "read", value |-> outcome]
                /\ UNCHANGED << t_fine, bme_compensation, bme_compensated >>
           ELSE IF outcome = "panic"
           THEN /\ temperature_overflows(temp_raw) \/ humidity_overflows(t_fine, hum_raw)
                /\ t_fine' = IF temperature_overflows(temp_raw) THEN t_fine ELSE fine
                /\ bme_pc' = "panicked"
                /\ bme_result' = [call |-> "read", value |-> "panic"]
                /\ bme_compensation' =
                       [call |-> "read_compensated_data", adc |-> hum_raw,
                        outcome |-> "panic", value |-> 0, temp_raw |-> temp_raw,
                        fine |-> t_fine]
                /\ UNCHANGED bme_compensated
           ELSE /\ outcome = "data"
                /\ t_fine' = fine
                /\ bme_compensation' =
                       [call |-> "read_compensated_data", adc |-> hum_raw,
                        outcome |-> "value", value |-> humidity,
                        temp_raw |-> temp_raw, fine |-> t_fine]
                /\ bme_compensated' = [temperature |-> temperature,
                                       humidity |-> humidity, pressure |-> pressure]
                /\ bme_pc' = "ready"
                /\ bme_result' = Bme280Reading(temperature, humidity, pressure)
        /\ UNCHANGED taskVars
        /\ UNCHANGED chanVars
        /\ UNCHANGED me2coVars
        /\ UNCHANGED sds011Vars
        /\ UNCHANGED mgrVars
        /\ UNCHANGED readingVars

\* the rest of read() on the raw words temp_raw and hum_raw: a bus error
\* returns before anything is compensated; otherwise compensate_temperature
\* assigns t_fine, then compensate_pressure and compensate_humidity read it
\* (bme_compensation.fine records the t_fine they read).  An operation that
\* overflows panics in a build with overflow checks: in compensate_temperature
\* before t_fine is assigned, in compensate_humidity after.
Bme280MeasureRaw(outcome, temp_raw, hum_raw, pressure) ==
    LET fine == wrapping_add_i32(var1(temp_raw), var2(temp_raw))
        temperature == shr(wrapping_add_i32(wrapping_mul(fine, 5), 128), 8)
        humidity == humidity_value(fine, hum_raw)
    IN  /\ bme_pc = "measure"
        /\ bme_log' = Append(bme_log, BusRead(BME280_REG_PRESS_MSB, 8))
        /\ UNCHANGED << bme_address, bme_calibration >>
        /\ IF outcome \in ReadErrors("BME280")
           THEN /\ bme_pc' = "ready"
                /\ bme_result' = [call |-> "read", value |-> outcome]
                /\ UNCHANGED << t_fine, bme_compensation, bme_compensated >>
           ELSE IF outcome = "panic"
           THEN /\ temperature_overflows(temp_raw) \/ humidity_overflows(fine, hum_raw)
                /\ t_fine' = IF temperature_overflows(temp_raw) THEN t_fine ELSE fine
                /\ bme_pc' = "panicked"
                /\ bme_result' = [call |-> "read", value |-> "panic"]
                /\ bme_compensation' =
                       [call |-> "read_compensated_data", adc |-> hum_raw,
                        outcome |-> "panic", value |-> 0, temp_raw |-> temp_raw,
                        fine |-> fine]
                /\ UNCHANGED bme_compensated
           ELSE /\ outcome = "data"
                /\ t_fine' = fine
                /\ bme_compensation' =
                       [call |-> "read_compensated_data", adc |-> hum_raw,
                        outcome |-> "value", value |-> humidity,
                        temp_raw |-> temp_raw, fine |-> fine]
                /\ bme_compensated' = [temperature |-> temperature,
                                       humidity |-> humidity, pressure |-> pressure]
                /\ bme_pc' = "ready"
                /\ bme_result' = Bme280Reading(temperature, humidity, pressure)
        /\ UNCHANGED taskVars
        /\ UNCHANGED chanVars
        /\ UNCHANGED me2coVars
        /\ UNCHANGED sds011Vars
        /\ UNCHANGED mgrVars
        /\ UNCHANGED readingVars

\* pressures compensate_pressure returns: 0 (its division guard) and 1000 hPa
RawPressureSamples == {0, 25600000}

\* init() followed transaction by transaction, with the calibration words
\* stored while init() is at their read, and read() on raw words
NextBme280Raw ==
    \/ /\ ~initialized["BME280"]
       /\ Bme280InitCall
    \/ \E outcome \in BusOutcomes, chip_id \in ChipIds : Bme280Probe(outcome, chip_id)
    \/ /\ bme_pc = "calibration_tp"
       /\ \E dig_t3 \in HumidityDigT3Samples : read_calibration(27504, 26435, dig_t3)
    \/ /\ bme_pc = "calibration_h2"
       /\ \E h1 \in DigH1Samples, h_buf \in HBufSamples : read_calibration_humidity(h1, h_buf)
    \/ \E outcome \in BusOutcomes : Bme280InitStep(outcome)
    \/ \E outcome \in {"written", "NotInitialized"} \union ReadErrors("BME280") :
           Bme280ReadCall(outcome)
    \/ \E outcome \in {"data", "panic"}, temp_raw \in AdcTSamples, hum_raw \in AdcHSamples,
          pressure \in RawPressureSamples :
           Bme280MeasureRaw(outcome, temp_raw, hum_raw, pressure)
    \/ \E outcome \in ReadErrors("BME280") : Bme280MeasureRaw(outcome, 0, 0, 0)

SpecBme280Raw == Init /\ [][NextBme280Raw]_vars

(***************************************************************************)
(* SensorReading (mod.rs:40-47, 187-209): construction, timestamp and      *)
(* is_valid, with the system clock (embassy_time, milliseconds since boot) *)
(* running beside them.                                                    *)
(***************************************************************************)
\* enum Quality
Quality == {"Good", "Degraded", "Bad"}

\* the SensorType variants this firmware constructs readings of
ReadingTypes == {"BME280", "SDS011", "ME2CO"}

\* SensorData payloads: the variant and whether its Option fields hold a value
DataSamples == { [variant |-> "Environmental", present |-> TRUE],
                 [variant |-> "AirQuality", present |-> TRUE],
                 [variant |-> "AirQuality", present |-> FALSE],
                 [variant |-> "Gas", present |-> TRUE] }

\* SensorReading::current_timestamp: the literal 0, whatever the clock reads
current_timestamp == 0

\* faulty variant: valid only when the quality is Good
is_valid_strict(r) == r.quality = "Good"

\* SensorReading::is_valid
is_valid(r) == r.quality # "Bad"

\* the system clock advances by a millisecond
ClockTick ==
    /\ clock < MaxClock
    /\ clock' = clock + 1
    /\ UNCHANGED << reading, previous_reading, is_valid_result >>
    /\ UNCHANGED << taskVars, chanVars, mgrVars, drvVars >>

\* SensorReading::new(sensor_type, data, quality); `constructed_at` records the
\* clock of the call, `previous_reading` the reading constructed before this one
SensorReading_new(sensor_type, data, reading_quality) ==
    /\ reading' = [constructed |-> TRUE,
                   sensor_type |-> sensor_type,
                   data |-> data,
                   timestamp |-> current_timestamp,
                   quality |-> reading_quality,
                   constructed_at |-> clock]
    /\ previous_reading' = [constructed |-> reading.constructed,
                            timestamp |-> reading.timestamp,
                            constructed_at |-> reading.constructed_at]
    /\ is_valid_result' = [called |-> FALSE, value |-> FALSE]
    /\ UNCHANGED clock
    /\ UNCHANGED << taskVars, chanVars, mgrVars, drvVars >>

\* reading.is_valid() on the reading constructed last
IsValidCall ==
    /\ reading.constructed
    /\ is_valid_result' = [called |-> TRUE, value |-> is_valid(reading)]
    /\ UNCHANGED << clock, reading, previous_reading >>
    /\ UNCHANGED << taskVars, chanVars, mgrVars, drvVars >>

NextReading ==
    \/ ClockTick
    \/ \E sensor_type \in ReadingTypes, data \in DataSamples, reading_quality \in Quality :
           SensorReading_new(sensor_type, data, reading_quality)
    \/ IsValidCall

SpecReading == Init /\ [][NextReading]_vars

(***************************************************************************)
(* The three drivers called by a caller that does not wait for init() to   *)
(* return Ok: init() and read() of each driver in any order, as long as    *)
(* that driver's init() has not succeeded.                                 *)
(***************************************************************************)
NextUninitialized ==
    \/ /\ ~initialized["ME2CO"]
       /\ \E outcome \in {"Ok", "CommunicationError", "Timeout"} : Me2coInitCall(outcome)
    \/ /\ ~initialized["ME2CO"]
       /\ \E outcome \in {"sent", "CommunicationError", "Timeout", "NotInitialized"},
             answer \in Me2coAnswers : Me2coReadCall(outcome, answer)
    \/ /\ ~initialized["SDS011"]
       /\ \E outcome \in {"Ok", "CommunicationError", "Timeout"} : Sds011InitCall(outcome)
    \/ /\ ~initialized["SDS011"]
       /\ Sds011ReadCall
    \/ /\ ~initialized["BME280"]
       /\ Bme280InitCall
    \/ \E outcome \in BusOutcomes, chip_id \in ChipIds : Bme280Probe(outcome, chip_id)
    \/ \E outcome \in BusOutcomes : Bme280InitStep(outcome)
    \/ /\ ~initialized["BME280"]
       /\ \E outcome \in {"written", "NotInitialized"} \union ReadErrors("BME280") :
              Bme280ReadCall(outcome)

SpecUninitialized == Init /\ [][NextUninitialized]_vars

(***************************************************************************)
(* Properties.                                                             *)
(***************************************************************************)
\* positions of the reading loop
Sampling == {"read", "collect", "interval", "backoff"}

\* the readings numbered a..b that task t constructed
Run(t, a, b) == [i \in 1..(b - a + 1) |-> SensorReading(t, a + i - 1)]

\* a step in which some task constructed a reading and offered it to the channel
Offered == next_serial' = next_serial + 1

\* the reading offered in such a step by task t
OfferedBy(t) == Offered /\ pc[t] \in {"read", "collect"} /\ pc'[t] # pc[t]

\* C1: the channel never holds more than 32 readings; a send attempted while it
\* holds 32 leaves the queue as it was and loses the new reading; after 33 sends
\* and no receive the channel holds the first 32 readings in send order and the
\* 33rd is the one lost.
C1_Backpressure ==
    /\ [](Len(channel) <= 32)
    /\ [][ (Offered /\ Len(channel) = 32) =>
               /\ channel' = channel
               /\ accepted' = accepted
               /\ Len(dropped') = Len(dropped) + 1
               /\ dropped'[Len(dropped')].serial = next_serial' ]_vars
    /\ []( (next_serial = 33 /\ received = << >>) =>
               /\ channel = Run("BME280", 1, 32)
               /\ dropped = Run("BME280", 33, 33) )

\* C1 witness: 33 readings were sent, none received, the channel is full
C1_Witness ==
    /\ next_serial = 33
    /\ received = << >>
    /\ Len(channel) = 32
    /\ Len(dropped) = 1

C3_ProducerNeverWaits ==
    /\ [](\A t \in Polled :
              /\ (pc[t] = "read" /\ initialized[t]) => ENABLED ReadOk(t)
              /\ pc[t] = "interval" => ENABLED IntervalDone(t))
    /\ []((pc["ME2CO"] = "collect" /\ me2co_rx = "data") => ENABLED Me2coFrameOk)
    /\ [][ \A t \in Sensors :
               OfferedBy(t) =>
                   /\ pc'[t] = "interval"
                   /\ sleeping'[t] = reading_interval(t) ]_vars

\* C3 witness: a reading was dropped on the full channel, nothing was received
\* since the channel filled, and the task is back at read()
C3_Witness ==
    /\ Len(channel) = 32
    /\ Len(dropped) = 1
    /\ received = << >>
    /\ pc["BME280"] = "read"

\* a step in which task t's init() returned an error
InitFailed(t) == pc[t] = "init" /\ pc'[t] # "init" /\ ~initialized'[t]

\* C4: a failed init(), whatever its error, is followed by the 5 s sleep and
\* then by another init(); a task in the retry sleep or about to call init() can
\* always go on; and a task is past the init loop only once init() returned Ok.
C4_InitRetriedForever ==
    /\ [][ \A t \in Sensors :
               /\ InitFailed(t) =>
                      /\ pc'[t] = "init_retry"
                      /\ sleeping'[t] = 5
                      /\ init_error'[t] \in InitErrors(t)
               /\ (pc[t] = "init_retry" /\ pc'[t] # pc[t]) => pc'[t] = "init"
               /\ (pc[t] = "init" /\ pc'[t] # pc[t]) =>
                      pc'[t] \in {"init_retry", "warm_up"} ]_vars
    /\ [](\A t \in Sensors :
              /\ pc[t] = "init_retry" => ENABLED InitRetryWake(t)
              /\ pc[t] = "init" =>
                     /\ ENABLED InitOk(t)
                     /\ \A e \in InitErrors(t) : ENABLED InitErr(t, e)
              /\ pc[t] \in {"init", "init_retry"} \cup {"warm_up"} \cup Sampling
              /\ pc[t] \in {"warm_up"} \cup Sampling => initialized[t])

\* C4 witness: the BME280 probe failed at both addresses and the task sleeps
\* its 5 s before the next init()
C4_Witness ==
    /\ pc["BME280"] = "init_retry"
    /\ init_error["BME280"] = "HardwareFailure"
    /\ sleeping["BME280"] = 5
    /\ ~initialized["BME280"]

\* C5: the warm-up sleep is entered only from the init() that returned Ok and is
\* left only for the first read(); the reading loop is entered only from the
\* warm-up; once init() has succeeded the task never returns to the init loop or
\* to the warm-up.
C5_Lifecycle ==
    [][ \A t \in Sensors :
            /\ (pc'[t] = "warm_up" /\ pc[t] # "warm_up") =>
                   /\ pc[t] = "init"
                   /\ ~initialized[t]
                   /\ initialized'[t]
                   /\ sleeping'[t] = warm_up_time(t)
            /\ (pc[t] = "warm_up" /\ pc'[t] # "warm_up") => pc'[t] = "read"
            /\ (pc'[t] \in Sampling /\ pc[t] \notin Sampling) =>
                   pc[t] = "warm_up" /\ pc'[t] = "read"
            /\ pc[t] \in Sampling => pc'[t] \in Sampling
            /\ initialized[t] => (initialized'[t] /\ pc'[t] \notin {"init", "init_retry"})
      ]_vars

\* C5 witness: a task that was initialized and warmed up, has backed off and is
\* at read() again
C5_Witness ==
    \E t \in Sensors :
        /\ pc[t] = "read"
        /\ initialized[t]
        /\ consecutive_errors[t] > 3

\* a step in which task t's read() returned an error
ReadFailed(t) ==
    /\ pc[t] \in {"read", "collect"}
    /\ pc'[t] \notin {"read", "collect"}
    /\ ~Offered

\* C6: a failed read() adds exactly 1 to the task's counter; a new value above 3
\* is followed by the 60 s sleep and then directly by read(), any other by the
\* interval sleep; the backoff leaves the counter as it is.
C6_LoopBackoff ==
    /\ [][ \A t \in Sensors :
               /\ ReadFailed(t) =>
                      /\ consecutive_errors'[t] = consecutive_errors[t] + 1
                      /\ IF consecutive_errors'[t] > 3
                         THEN pc'[t] = "backoff" /\ sleeping'[t] = 60
                         ELSE pc'[t] = "interval" /\ sleeping'[t] = reading_interval(t)
               /\ (pc[t] = "backoff" /\ pc'[t] # "backoff") =>
                      /\ pc'[t] = "read"
                      /\ consecutive_errors'[t] = consecutive_errors[t] ]_vars
    /\ [](\A t \in Sensors :
              /\ pc[t] = "backoff" => (consecutive_errors[t] >= 4 /\ ENABLED BackoffDone(t))
              /\ pc[t] = "interval" => consecutive_errors[t] <= 3)

\* C6 witness: the 5th consecutive failure, backing off again
C6_Witness ==
    \E t \in Sensors :
        /\ pc[t] = "backoff"
        /\ consecutive_errors[t] = 5
        /\ sleeping[t] = 60

\* C7: a read() that returned Ok leaves the counter at 0, offers that one reading
\* to the channel once and is followed by the interval sleep, also when the
\* channel was full and the reading was dropped.
C7_SuccessResets ==
    /\ [][ \A t \in Sensors :
               OfferedBy(t) =>
                   /\ consecutive_errors'[t] = 0
                   /\ pc'[t] = "interval"
                   /\ sleeping'[t] = reading_interval(t)
                   /\ \/ /\ accepted' = Append(accepted, SensorReading(t, next_serial'))
                         /\ dropped' = dropped
                      \/ /\ dropped' = Append(dropped, SensorReading(t, next_serial'))
                         /\ accepted' = accepted ]_vars
    /\ [][ dropped' # dropped =>
               \A t \in Sensors : pc'[t] # "backoff" \/ pc[t] = "backoff" ]_vars
    /\ [](Len(accepted) + Len(dropped) = next_serial)

\* C7 witness: the latest read succeeded on the full channel: its reading was
\* dropped, the counter is 0 and the task sleeps its interval
C7_Witness ==
    /\ Len(dropped) = 1
    /\ dropped[1].serial = next_serial
    /\ pc["BME280"] = "interval"
    /\ consecutive_errors["BME280"] = 0
    /\ sleeping["BME280"] = 30

\* what one task owns: its position, its timer, its counter, its driver
Local(t) == << pc[t], sleeping[t], consecutive_errors[t], initialized[t], init_error[t] >>

\* C8: a step changes the state of at most one task and its driver, so a failing
\* task changes nothing another task owns; and whatever the other tasks do (fail
\* forever, or wait for a device that never answers), a task at init() or read()
\* can get its result, a sleeping task can wake, and the aggregator can receive
\* whatever is queued.
C8_FailureIsolation ==
    /\ [][ \A t \in Sensors, u \in Sensors :
               (t # u /\ Local(t)' # Local(t)) => Local(u)' = Local(u) ]_vars
    /\ [][ \A t \in Sensors :
               Local(t)' # Local(t) => (received' = received /\ registry' = registry) ]_vars
    /\ [](\A u \in Sensors :
              /\ pc[u] = "init" => ENABLED InitOk(u)
              /\ pc[u] = "init_retry" => ENABLED InitRetryWake(u)
              /\ pc[u] = "warm_up" => ENABLED WarmUpDone(u)
              /\ pc[u] = "interval" => ENABLED IntervalDone(u)
              /\ pc[u] = "backoff" => ENABLED BackoffDone(u)
              /\ (pc[u] = "read" /\ u \in Polled) => ENABLED ReadOk(u))
    /\ [](channel # << >> => ENABLED Receive)

\* C8 witness: the ME2-CO device never answered its query and the SDS011 never
\* got through init(), while a BME280 reading reached the aggregator
C8_Witness ==
    /\ pc["ME2CO"] = "collect"
    /\ me2co_rx = "idle"
    /\ pc["SDS011"] = "init_retry"
    /\ Len(received) > 0
    /\ received[Len(received)].sensor_type = "BME280"
    /\ pc["BME280"] = "read"

\* the steps task t takes by itself: results of bounded calls and timers
OwnStep(t) ==
    \/ InitOk(t)
    \/ \E e \in InitErrors(t) : InitErr(t, e)
    \/ InitRetryWake(t)
    \/ WarmUpDone(t)
    \/ IntervalDone(t)
    \/ BackoffDone(t)
    \/ ReadOk(t)
    \/ \E e \in ReadErrors(t) \cup {"NotInitialized"} : ReadErr(t, e)
    \/ /\ t = "ME2CO"
       /\ \/ Me2coQuerySent
          \/ \E e \in {"CommunicationError", "Timeout", "NotInitialized"} : Me2coQueryErr(e)
          \/ Me2coFrameOk
          \/ \E e \in {"InvalidData", "Timeout"} : Me2coFrameErr(e)

\* C9: no task is ever in a position it cannot leave by itself: every wait of an
\* initialized task is a timer or a call bounded by a timeout, so the task gets
\* back to read() whatever the buses do.
C9_NeverStuck ==
    \A t \in Sensors : initialized[t] => ENABLED OwnStep(t)

\* C10: register_sensor for a registered type returns ConfigError and leaves the
\* registry as it was; no two entries of the registry have the same sensor_type.
C10_NoDuplicateRegistration ==
    /\ [][ \A t \in TypeUniverse :
               (is_sensor_registered(t) /\ register_sensor(t)) =>
                   /\ register_result' = "ConfigError"
                   /\ registry' = registry ]_vars
    /\ [](\A i \in 1..Len(registry), j \in 1..Len(registry) :
              registry[i].sensor_type = registry[j].sensor_type => i = j)

\* C10 witness: a second registration of a type was refused
C10_Witness ==
    /\ register_result = "ConfigError"
    /\ Len(registry) = MaxTypes

\* the entry register_sensor builds for type t
NewEntry(t) ==
    [sensor_type |-> t, task_spawned |-> FALSE, last_reading_time |-> 0, error_count |-> 0]

\* C11: mark_task_spawned and update_sensor_stats for a type that is not
\* registered leave the registry as it was; for a registered type they change
\* that type's entry only (task_spawned := TRUE; last_reading_time := timestamp,
\* error_count + 1 only when had_error) and leave every other entry and the
\* number of entries as they were; neither reports anything.
C11_ManagerFrame ==
    [][ \A t \in TypeUniverse :
            /\ mark_task_spawned(t) =>
                   /\ register_result' = register_result
                   /\ ~is_sensor_registered(t) => registry' = registry
                   /\ Len(registry') = Len(registry)
                   /\ \A i \in 1..Len(registry) :
                          registry'[i] =
                              IF registry[i].sensor_type = t
                              THEN [registry[i] EXCEPT !.task_spawned = TRUE]
                              ELSE registry[i]
            /\ \A ts \in 0..MaxTimestamp, had_error \in BOOLEAN :
                   update_sensor_stats(t, ts, had_error) =>
                       /\ register_result' = register_result
                       /\ ~is_sensor_registered(t) => registry' = registry
                       /\ Len(registry') = Len(registry)
                       /\ \A i \in 1..Len(registry) :
                              registry'[i] =
                                  IF registry[i].sensor_type = t
                                  THEN [registry[i] EXCEPT
                                           !.last_reading_time = ts,
                                           !.error_count =
                                               IF had_error THEN @ + 1 ELSE @]
                                  ELSE registry[i]
      ]_vars

\* C11 witness: the one registered type was marked and has counted an error at
\* time 1; the latest call reported an error at time 0 for a type that is not
\* registered and left that entry as it was
C11_Witness ==
    /\ last_call.op = "update_sensor_stats"
    /\ ~last_call.registered
    /\ last_call.had_error
    /\ last_call.timestamp = 0
    /\ Len(registry) = 1
    /\ registry[1].task_spawned
    /\ registry[1].last_reading_time = 1
    /\ registry[1].error_count = 1

\* C13: register_sensor returning Ok appends the entry (t, false, 0, 0); no step
\* removes or reorders an entry or changes its type; a registered type stays
\* registered; an entry's error_count never decreases.
C13_RegistrationPersists ==
    /\ [][ \A t \in TypeUniverse :
               (register_sensor(t) /\ register_result' = "Ok") =>
                   /\ ~is_sensor_registered(t)
                   /\ registry' = Append(registry, NewEntry(t)) ]_vars
    /\ [][ /\ Len(registry') >= Len(registry)
           /\ \A i \in 1..Len(registry) :
                  /\ registry'[i].sensor_type = registry[i].sensor_type
                  /\ registry'[i].error_count >= registry[i].error_count ]_vars
    /\ [][ \A t \in SensorType :
               is_sensor_registered(t) => is_sensor_registered(t)' ]_vars

\* C13 witness: two types are registered; the first counted an error and then
\* had a success reported, and keeps its count; the second is still the entry
\* register_sensor built
C13_Witness ==
    /\ last_call.op = "update_sensor_stats"
    /\ last_call.registered
    /\ ~last_call.had_error
    /\ Len(registry) = 2
    /\ registry[1].sensor_type = last_call.sensor_type
    /\ registry[1].error_count = 1
    /\ registry[2] = NewEntry(registry[2].sensor_type)

\* C14: a read() that has sent its query is collecting only while fewer than 9
\* bytes are stored and no more than 1000 ms have elapsed since the collection
\* started, whatever the device sends or does not send; and a read() that
\* returned with fewer than 9 bytes stored returned Timeout.
C14_ReadReturnsByDeadline ==
    /\ me_pc = "collect" =>
           /\ me_bytes_read < ME2CO_FRAME_LEN
           /\ me_elapsed <= ME2CO_DEADLINE_MS
    /\ (me_pc = "ready" /\ me_result.call = "read" /\ me_bytes_read < ME2CO_FRAME_LEN) =>
           me_result.value \in {"Timeout", "CommunicationError", "NotInitialized"}

\* the frame tests as the protocol states them
Accepted(response) ==
    /\ response[1] = 255
    /\ response[2] = 134
    /\ (response[9] + response[2] + response[3] + response[4] + response[5]
            + response[6] + response[7] + response[8]) % 256 = 0
    /\ response[3] * 256 + response[4] <= 10000

\* C15: a read() that collected 9 bytes returns Ok when the header is FF 86, byte
\* 8 is the two's complement of the sum of bytes 1..7 mod 256 and the big-endian
\* value of bytes 2-3 is at most 10000 tenths of a ppm, and InvalidData in every
\* other case.
C15_FrameValidation ==
    (me_pc # "collect" /\ me_result.call = "read" /\ me_bytes_read = ME2CO_FRAME_LEN) =>
        me_result.value = IF Accepted(me_response) THEN "Ok" ELSE "InvalidData"

\* C16: a read() of the initialized driver that finds error_count >= 5 less than
\* 60 s after the last recorded error returns Timeout in that same step, having
\* used the UART for nothing and changed nothing; one that finds error_count >= 5
\* at least 60 s after it sets error_count to 0 and goes on to the start command
\* or to the acquisition.
C16_ErrorGate ==
    [][ (Sds011ReadCall /\ initialized["SDS011"]
             /\ sds_error_count >= 5 /\ sds_last_error_age # -1) =>
            IF sds_last_error_age < 60
            THEN /\ sds_pc' = "ready"
                 /\ sds_result'.value = "Timeout"
                 /\ ~sds_io'
                 /\ sds_error_count' = sds_error_count
                 /\ sds_last_error_age' = sds_last_error_age
                 /\ sds_is_running' = sds_is_running
            ELSE /\ sds_error_count' = 0
                 /\ sds_result'.value = "pending"
                 /\ sds_pc' = IF sds_is_running THEN "discard" ELSE "start"
      ]_vars

\* C16 witness: the fifth failure was 59 s ago and the read() just called
\* returned Timeout without touching the UART
C16_Witness ==
    /\ sds_pc = "ready"
    /\ sds_result.call = "read"
    /\ sds_result.value = "Timeout"
    /\ ~sds_io
    /\ sds_error_count = 5
    /\ sds_last_error_age = 59

\* a step in which a read() of the SDS011 driver returns
Sds011Returns ==
    /\ sds_pc' = "ready"
    /\ sds_result'.call = "read"
    /\ sds_pc # "ready" \/ Sds011ReadCall

\* C17 as stated: a read() that returns Ok leaves error_count = 0, and every
\* read() that returns Timeout, InvalidData or a start-command error, the
\* cooldown short-circuit included, adds exactly 1 to error_count and sets
\* last_error_time to now.
C17_EveryFailureCounted ==
    [][ Sds011Returns =>
            /\ sds_result'.value = "Ok" => sds_error_count' = 0
            /\ sds_result'.value \in {"Timeout", "InvalidData", "CommunicationError"} =>
                   /\ sds_error_count' = sds_error_count + 1
                   /\ sds_last_error_age' = 0
      ]_vars

\* C17 amended: a read() that returns Ok leaves error_count = 0; a read() that
\* returns an error after passing the gate adds exactly 1 to error_count and sets
\* last_error_time to now; the cooldown short-circuit (and NotInitialized)
\* returns with error_count and last_error_time as they were.
C17_FailureCountedPastGate ==
    [][ Sds011Returns =>
            /\ sds_result'.value \in {"Ok", "Timeout", "InvalidData",
                                      "CommunicationError", "NotInitialized"}
            /\ sds_result'.value = "Ok" => sds_error_count' = 0
            /\ sds_result'.value # "Ok" =>
                   IF sds_pc = "ready"
                   THEN /\ sds_error_count' = sds_error_count
                        /\ sds_last_error_age' = sds_last_error_age
                   ELSE /\ sds_error_count' = sds_error_count + 1
                        /\ sds_last_error_age' = 0
      ]_vars

\* C17 witness: the second failure in a row, an out-of-range measurement
C17_Witness ==
    /\ sds_pc = "ready"
    /\ sds_result.value = "InvalidData"
    /\ sds_error_count = 2
    /\ sds_last_error_age = 0

\* the SDS011 frame test as the protocol states it
FrameValid(payload) ==
    /\ (payload[1] + payload[2] + payload[3] + payload[4] + payload[5] + payload[6])
           % 256 = payload[7]
    /\ payload[8] = 171

\* a step in which the candidate frame is given up and nothing is returned for it
ScanContinues ==
    /\ sds_result'.value \in {"pending", "Timeout"}
    /\ sds_elapsed < 2000 =>
           /\ sds_pc' = "scan"
           /\ sds_error_count' = sds_error_count
           /\ sds_result' = sds_result

\* C18: a candidate whose 8 payload bytes arrived is accepted exactly when bytes
\* 0..5 sum to byte 6 mod 256 and byte 7 is AB, and then read_measurement returns
\* its two little-endian values; a candidate that fails the test or does not
\* arrive in full produces no error and the scan goes on; and a header AA C0 that
\* follows in the scanned stream starts the collection of its frame.
C18_FrameAcceptance ==
    /\ [][ \A payload \in Sds011Payloads, n \in Sds011Chunks :
               (sds_pc = "payload" /\ Len(sds_data) + n = 8
                    /\ Sds011PayloadRead("bytes", payload, n)) =>
                   IF FrameValid(payload)
                   THEN /\ sds_pc' = "ready"
                        /\ sds_result'.value \in {"Ok", "InvalidData"}
                        /\ sds_result'.value = "Ok" =>
                               /\ sds_result'.pm25 = payload[1] + 256 * payload[2]
                               /\ sds_result'.pm10 = payload[3] + 256 * payload[4]
                   ELSE ScanContinues ]_vars
    /\ [][ \A outcome \in {"timeout", "error"} :
               (sds_pc = "payload" /\ Sds011PayloadRead(outcome, << >>, 0)) =>
                   ScanContinues ]_vars
    /\ [][ (sds_pc = "scan" /\ sds_prev = 170 /\ Sds011ScanRead("byte", 192)) =>
               sds_pc' = "payload" ]_vars

\* C19: every SDS011 read() returns, whatever the UART hands the driver: a call
\* in progress (start command, discard loop, scan, payload) is always followed by
\* the driver being ready for the next call.
C19_ReadTerminates ==
    (sds_pc # "ready") ~> (sds_pc = "ready")

\* C20: a read() that got its measurement returns Ok whatever the three values
\* are; each field is Some(value) exactly when its value is within the range
\* (temperature -40..85 degC, humidity 0..100 %RH, pressure 300..1100 hPa) and
\* None otherwise, each independently of the other two; gas_resistance is None;
\* quality is Good exactly when all three fields are Some and Bad otherwise.
C20_FieldsIndependent ==
    /\ [][ \A temperature \in TemperatureSamples, humidity \in HumiditySamples,
              pressure \in PressureSamples :
               Bme280MeasureDone("data", temperature, humidity, pressure) =>
                   /\ bme_result'.value = "Ok"
                   /\ bme_compensated' = [temperature |-> temperature,
                                          humidity |-> humidity,
                                          pressure |-> pressure] ]_vars
    /\ [] ( (bme_result.call = "read" /\ bme_result.value = "Ok") =>
              /\ bme_result.temperature =
                     IF bme_compensated.temperature >= -4000
                            /\ bme_compensated.temperature <= 8500
                     THEN Some(bme_compensated.temperature) ELSE None
              /\ bme_result.humidity =
                     IF bme_compensated.humidity >= 0
                            /\ bme_compensated.humidity <= 102400
                     THEN Some(bme_compensated.humidity) ELSE None
              /\ bme_result.pressure =
                     IF bme_compensated.pressure >= 7680000
                            /\ bme_compensated.pressure <= 28160000
                     THEN Some(bme_compensated.pressure) ELSE None
              /\ bme_result.gas_resistance = None
              /\ bme_result.quality \in {"Good", "Bad"}
              /\ bme_result.quality = "Good" <=>
                     /\ bme_result.temperature # None
                     /\ bme_result.humidity # None
                     /\ bme_result.pressure # None )

\* C20 witness: 95 degC with 50 %RH and 1000 hPa: the read returned Ok with the
\* temperature absent, the other two fields present and quality Bad
C20_Witness ==
    /\ bme_pc = "ready"
    /\ bme_result.call = "read"
    /\ bme_result.value = "Ok"
    /\ bme_compensated.temperature = 9500
    /\ bme_result.temperature = None
    /\ bme_result.humidity = Some(51200)
    /\ bme_result.pressure = Some(25600000)
    /\ bme_result.quality = "Bad"

ExpectedAfterProbe ==
    << [op |-> "read", register |-> 136, len |-> 24],
       [op |-> "read", register |-> 161, len |-> 1],
       [op |-> "read", register |-> 225, len |-> 7],
       [op |-> "write", register |-> 242, len |-> 1],
       [op |-> "write", register |-> 244, len |-> 37],
       [op |-> "write", register |-> 245, len |-> 160] >>

\* the number of chip-ID reads at the head of the log
Probes == Cardinality({ i \in 1..Len(bme_log) : bme_log[i].register = 208 })

\* C29: the transactions of an init() call are the probe (one or two chip-ID
\* reads) followed by a prefix of: T/P calibration, H1, H2..H6, ctrl_hum,
\* ctrl_meas, config, all at the address the probe found; a step that fails ends
\* the call with that step's error and initialized still false; initialized
\* becomes true only in the step that completes the sixth transaction, and the
\* call then returns Ok.
C29_InitOrder ==
    /\ [] ( bme_result.call = "init" =>
              /\ Probes \in 0..2
              /\ Len(bme_log) - Probes <= 6
              /\ \A i \in 1..Len(bme_log) :
                     IF i <= Probes
                     THEN bme_log[i].register = 208
                     ELSE /\ Probes >= 1
                          /\ bme_log[i] =
                                 [op |-> ExpectedAfterProbe[i - Probes].op,
                                  address |-> bme_address,
                                  register |-> ExpectedAfterProbe[i - Probes].register,
                                  len |-> ExpectedAfterProbe[i - Probes].len]
              /\ bme_pc # "ready" => ~initialized["BME280"]
              /\ (bme_pc = "ready" /\ bme_result.value # "Ok") => ~initialized["BME280"]
              /\ (bme_pc = "ready" /\ bme_result.value = "Ok") =>
                     /\ initialized["BME280"]
                     /\ Len(bme_log) - Probes = 6 )
    /\ [][ \A outcome \in BusOutcomes :
               Bme280InitStep(outcome) =>
                   IF outcome # "Ok"
                   THEN /\ bme_pc' = "ready"
                        /\ bme_result' = [call |-> "init", value |-> outcome]
                        /\ initialized' = initialized
                   ELSE /\ initialized'["BME280"] <=> Len(bme_log') - Probes' = 6
                        /\ bme_pc' = "ready" <=> Len(bme_log') - Probes' = 6 ]_vars

\* C29 witness: an init() found the device at 0x76, read the T/P and H1
\* calibration and timed out on the 7-byte humidity calibration: it returned
\* Timeout after four transactions with initialized false
C29_Witness ==
    /\ bme_pc = "ready"
    /\ bme_result = [call |-> "init", value |-> "Timeout"]
    /\ Len(bme_log) = 4
    /\ bme_log[4].register = 225
    /\ ~initialized["BME280"]

\* C22: while no init() of a driver has returned Ok, a read() of that driver
\* returns NotInitialized in the step of the call, makes no bus transaction and
\* leaves the driver's fields (initialized, is_running, error_count,
\* last_error_time, address) as they were; and a driver's initialized flag is
\* set exactly when its init() has returned Ok.
C22_NotInitialized ==
    /\ [][ \A outcome \in {"sent", "CommunicationError", "Timeout", "NotInitialized"},
              answer \in Me2coAnswers :
               (~initialized["ME2CO"] /\ Me2coReadCall(outcome, answer)) =>
                   /\ me_result' = [call |-> "read", value |-> "NotInitialized"]
                   /\ me_pc' = "ready"
                   /\ me_tx' = me_tx
                   /\ me_queries' = me_queries
                   /\ me_fifo' = me_fifo
                   /\ initialized' = initialized ]_vars
    /\ [][ (~initialized["SDS011"] /\ Sds011ReadCall) =>
               /\ sds_result'.call = "read"
               /\ sds_result'.value = "NotInitialized"
               /\ sds_pc' = "ready"
               /\ ~sds_io'
               /\ sds_is_running' = sds_is_running
               /\ sds_error_count' = sds_error_count
               /\ sds_last_error_age' = sds_last_error_age
               /\ initialized' = initialized ]_vars
    /\ [][ \A outcome \in {"written", "NotInitialized"} \union ReadErrors("BME280") :
               (~initialized["BME280"] /\ Bme280ReadCall(outcome)) =>
                   /\ bme_result' = [call |-> "read", value |-> "NotInitialized"]
                   /\ bme_pc' = "ready"
                   /\ bme_log' = << >>
                   /\ bme_address' = bme_address
                   /\ initialized' = initialized ]_vars
    /\ [] ( /\ initialized["ME2CO"] <=> me_result = [call |-> "init", value |-> "Ok"]
            /\ initialized["SDS011"] <=>
                   (sds_result.call = "init" /\ sds_result.value = "Ok")
            /\ initialized["BME280"] <=> bme_result = [call |-> "init", value |-> "Ok"] )

\* C22 witness: the BME280 probe failed at both addresses, the other two drivers
\* were never initialized, and the latest read() of each driver returned
\* NotInitialized
C22_Witness ==
    /\ \A t \in Sensors : ~initialized[t]
    /\ me_result = [call |-> "read", value |-> "NotInitialized"]
    /\ sds_result.call = "read"
    /\ sds_result.value = "NotInitialized"
    /\ bme_result = [call |-> "read", value |-> "NotInitialized"]
    /\ bme_address = 119
    /\ me_tx = << >>
    /\ ~sds_io
    /\ bme_log = << >>

\* C23: in the composed system a task is at read() (or inside the ME2-CO
\* collection) only with its driver's initialized flag set, and no read() of any
\* task returns NotInitialized.
C23_NeverNotInitialized ==
    /\ [] ( \A t \in Sensors : pc[t] \in {"read", "collect"} => initialized[t] )
    /\ [][ \A t \in Sensors : ~ReadErr(t, "NotInitialized") ]_vars
    /\ [][ ~Me2coQueryErr("NotInitialized") ]_vars

\* C23 witness: the BME280 task sleeps after a failed probe, the SDS011 task is
\* about to call read(), and a read() of the ME2-CO task has returned an error
C23_Witness ==
    /\ pc["BME280"] = "init_retry"
    /\ init_error["BME280"] = "HardwareFailure"
    /\ pc["SDS011"] = "read"
    /\ initialized["SDS011"]
    /\ pc["ME2CO"] = "interval"
    /\ consecutive_errors["ME2CO"] = 1

\* C24: no operation of a driver ends the process, whatever bytes the bus
\* delivers: the ME2-CO collection never stores more than 9 bytes, and every
\* read() that has collected its bytes returns Ok or a SensorError instead of
\* panicking.
C24_NoCrash ==
    /\ me_bytes_read <= 9
    /\ me_pc # "panicked"
    /\ me_result.value \in {"none", "pending", "Ok", "NotInitialized",
                            "CommunicationError", "Timeout", "InvalidData"}

\* t_fine of the Bosch reference algorithm in 32-bit arithmetic, dig_T1 widened
\* to 32 bits before it is shifted
bosch_t_fine(adc_T, dig_T1, dig_T2, dig_T3) ==
    wrapping_add_i32(
        shr(wrapping_mul(shr(adc_T, 3) - dig_T1 * 2, dig_T2), 11),
        shr(wrapping_mul(shr(wrapping_mul(shr(adc_T, 4) - dig_T1,
                                          shr(adc_T, 4) - dig_T1), 12), dig_T3), 14))

\* C30: for every raw word and every calibration triple compensate_temperature
\* returns a value, leaves in t_fine the reference algorithm's var1 + var2, and
\* returns (t_fine * 5 + 128) >> 8 hundredths of a degree.
C30_TemperatureMatchesBosch ==
    bme_compensation.call = "compensate_temperature" =>
        /\ bme_compensation.outcome = "value"
        /\ t_fine = bosch_t_fine(bme_compensation.adc, bme_calibration.dig_t1,
                                 bme_calibration.dig_t2, bme_calibration.dig_t3)
        /\ bme_compensation.value = shr(t_fine * 5 + 128, 8)

\* C27: every uart.read of the collection stores its chunk right after the bytes
\* already collected and leaves those bytes as they were; it takes the chunk from
\* the head of what the line holds, never more than the 9 - bytes_read bytes
\* still missing; bytes_read changes only by such a chunk or by the start of a
\* new read(); and the frame is validated only when 9 bytes are stored.
C27_Concatenation ==
    /\ [][ \A value \in {"pending", "Ok", "InvalidData", "Timeout", "panic"} :
               Me2coUartRead(value) =>
                   /\ me_bytes_read' > me_bytes_read
                   /\ me_bytes_read' <= 9
                   /\ \A i \in 1..me_bytes_read : me_response'[i] = me_response[i]
                   /\ \A i \in 1..(me_bytes_read' - me_bytes_read) :
                          me_response'[me_bytes_read + i] = me_fifo[i]
                   /\ me_fifo' = SubSeq(me_fifo, me_bytes_read' - me_bytes_read + 1,
                                        Len(me_fifo))
                   /\ value \in {"Ok", "InvalidData", "panic"} => me_bytes_read' = 9 ]_vars
    /\ [][ (me_bytes_read' # me_bytes_read \/ me_response' # me_response) =>
               \/ me_pc = "collect" /\ me_bytes_read' > me_bytes_read
               \/ me_pc = "ready" /\ me_result'.call = "read" /\ me_bytes_read' = 0 ]_vars
    /\ [] ( me_pc = "collect" => me_bytes_read < 9 )

\* C27 witness: the first five bytes of the answer FF 86 00 32 .. are stored and
\* its last four wait on the line for the next uart.read
C27_Witness ==
    /\ me_pc = "collect"
    /\ me_bytes_read = 5
    /\ me_response[1] = 255
    /\ me_response[2] = 134
    /\ me_response[4] = 50
    /\ Len(me_fifo) = 4
    /\ me_tx = << >>

\* C25: whenever is_valid() has been called on a reading, it returned false
\* exactly when the reading's quality is Bad, whatever data the reading carries
C25_IsValid ==
    is_valid_result.called =>
        /\ is_valid_result.value = FALSE <=> reading.quality = "Bad"
        /\ reading.quality \in {"Good", "Degraded"} => is_valid_result.value = TRUE

\* C25 witness: is_valid() returned false for a Bad reading with populated data
C25_Witness ==
    /\ is_valid_result.called
    /\ reading.quality = "Bad"
    /\ reading.data = [variant |-> "Environmental", present |-> TRUE]
    /\ is_valid_result.value = FALSE

\* C26: a reading's timestamp is the clock value of its construction; the
\* timestamps of successive readings do not decrease, and they differ when the
\* readings were constructed at different clock values
C26_TimestampIsClock ==
    reading.constructed =>
        /\ reading.timestamp = reading.constructed_at
        /\ previous_reading.constructed =>
               /\ previous_reading.timestamp <= reading.timestamp
               /\ previous_reading.constructed_at # reading.constructed_at =>
                      previous_reading.timestamp # reading.timestamp

\* what the log of a read() holds once it has sent start and slept the settle
\* period
StartedAndSettled ==
    << [op |-> "cmd_start", secs |-> 0],
       [op |-> "Timer::after", secs |-> SDS011_SETTLE_SECS] >>

\* the previous call was a read() that ended in a failed start command
AfterFailedStart ==
    /\ sds_pc = "ready"
    /\ sds_result.call = "read"
    /\ sds_log = << [op |-> "cmd_start", secs |-> 0] >>

\* read() sends start only when is_running is false; a successful start sets
\* is_running and is followed by the settle wait before read_measurement; a
\* read() that finds is_running set goes to read_measurement with neither;
\* is_running, once set, stays set; a failed start leaves it false and returns
\* the start command's error
StartDiscipline ==
    /\ [][ Sds011ReadCall =>
               /\ sds_pc' = "start" => ~sds_is_running
               /\ sds_is_running => sds_pc' \in {"ready", "discard"} ]_vars
    /\ [][ (sds_pc' = "start" /\ sds_pc # "start") => ~sds_is_running ]_vars
    /\ [][ \A outcome \in {"Ok", "CommunicationError", "Timeout"} :
               Sds011StartDone(outcome) =>
                   IF outcome = "Ok"
                   THEN sds_is_running' /\ sds_pc' = "settle"
                   ELSE /\ ~sds_is_running'
                        /\ sds_pc' = "ready"
                        /\ sds_result'.value = outcome ]_vars
    /\ [][ (sds_pc' = "discard" /\ sds_pc # "discard") =>
               \/ sds_pc = "settle" /\ sds_log' = StartedAndSettled
               \/ sds_pc = "ready" /\ sds_is_running /\ sds_log' = << >> ]_vars
    /\ [][ sds_is_running => sds_is_running' ]_vars
    /\ [] ( sds_pc \in {"settle", "discard", "scan", "payload"} => sds_is_running )

\* C28 as stated: the start discipline, and the read() that follows a failed
\* start sends the start command again
C28_StartAgainAfterFailure ==
    /\ StartDiscipline
    /\ [][ (AfterFailedStart /\ Sds011ReadCall) => sds_pc' = "start" ]_vars

\* C28 amended: the start discipline, and the read() that follows a failed start
\* sends the start command again unless the error gate turns it away, in which
\* case it returns Timeout without using the UART
C28_StartAgainPastGate ==
    /\ StartDiscipline
    /\ [][ (AfterFailedStart /\ Sds011ReadCall) =>
               IF Sds011Gate = "cooldown"
               THEN /\ sds_pc' = "ready"
                    /\ sds_result'.value = "Timeout"
                    /\ ~sds_io'
                    /\ ~sds_is_running'
               ELSE sds_pc' = "start" ]_vars

\* C28 witness: a start command failed, and the following read() is sending the
\* start command again
C28_Witness ==
    /\ sds_pc = "start"
    /\ sds_error_count = 1
    /\ sds_last_error_age = 0
    /\ ~sds_is_running
    /\ sds_result.value = "pending"

\* C36: a counted error always has its time recorded, so a read() entered with
\* error_count >= 5 meets the gate: it is either turned away (Timeout, count
\* kept) or goes on with the count reset to 0
C36_GateNeverSkipped ==
    /\ [] ( sds_error_count > 0 => sds_last_error_age # -1 )
    /\ [][ (Sds011ReadCall /\ initialized["SDS011"] /\ sds_error_count >= SDS011_ERROR_LIMIT) =>
               /\ Sds011Gate \in {"cooldown", "reset"}
               /\ IF sds_pc' = "ready"
                  THEN sds_result'.value = "Timeout" /\ UNCHANGED sds_error_count
                  ELSE sds_error_count' = 0 /\ sds_last_error_age' = -1 ]_vars
    /\ [] ( sds_pc # "ready" => sds_error_count < SDS011_ERROR_LIMIT )

\* C36 witness: five start commands failed and were counted, the last one 60 s
\* ago; the driver is about to be read again
C36_Witness ==
    /\ sds_pc = "ready"
    /\ sds_error_count = SDS011_ERROR_LIMIT
    /\ sds_last_error_age = SDS011_COOLDOWN_SECS
    /\ ~sds_is_running
    /\ sds_result.call = "read"
    /\ sds_result.value = "CommunicationError"

\* C35: whenever the scan loop reads 0xC0 right after having read 0xAA, it takes
\* the pair for a frame header and goes on to read the payload, whatever the
\* position of the two bytes in the scan buffer
C35_HeaderAnywhere ==
    [][ (sds_pc = "scan" /\ sds_prev = 170 /\ Sds011ScanRead("byte", 192)) =>
            sds_pc' = "payload" ]_vars

\* C34: the 9 bytes a read() has validated are the bytes the device sent in
\* answer to that read()'s own query, whatever happened to the reads before it
C34_FrameOfOwnQuery ==
    (me_pc \in {"ready", "panicked"} /\ me_result.call = "read"
        /\ me_bytes_read = ME2CO_FRAME_LEN) =>
        /\ Len(me_answer) = ME2CO_FRAME_LEN
        /\ \A i \in 1..ME2CO_FRAME_LEN : me_response[i] = me_answer[i]

\* C33: whenever the loop calls read() of the SDS011 driver, the driver's
\* error_count is at most the loop's consecutive_errors; with error_count >= 5
\* at least 60 s have passed since the last error, so the gate does not turn
\* the call away and the count is reset
C33_CooldownNeverTaken ==
    [][ Sds011LoopRead =>
            /\ sds_error_count <= consecutive_errors["SDS011"]
            /\ Sds011Gate # "cooldown"
            /\ sds_error_count >= SDS011_ERROR_LIMIT =>
                   /\ sds_last_error_age >= SDS011_COOLDOWN_SECS
                   /\ sds_error_count' = 0
                   /\ sds_pc' # "ready" ]_vars

\* C33 witness: the loop has counted five failed reads in a row and its sixth
\* call has gone past the gate with the driver's count reset
C33_Witness ==
    /\ pc["SDS011"] = "in_read"
    /\ consecutive_errors["SDS011"] = 5
    /\ sds_error_count = 0
    /\ sds_last_error_age = -1
    /\ sds_pc \in {"start", "discard"}

\* the Bosch BME280 reference humidity compensation (bme280_compensate_H_int32
\* of the datasheet, section 4.2.3) on the same calibration, t_fine and raw
\* word, in 32-bit arithmetic: 1/1024 %RH
bosch_humidity(adc_h) ==
    LET c == bme_calibration
        v == wrapping_sub(t_fine, 76800)
        raw == wrapping_sub(wrapping_sub(adc_h * 16384, c.dig_h4 * 1048576),
                            wrapping_mul(c.dig_h5, v))
        left == shr(wrapping_add_i32(raw, 16384), 15)
        h6 == shr(wrapping_mul(v, c.dig_h6), 10)
        h3 == wrapping_add_i32(shr(wrapping_mul(v, c.dig_h3), 11), 32768)
        scaled == wrapping_add_i32(shr(wrapping_mul(h6, h3), 10), 2097152)
        right == shr(wrapping_add_i32(wrapping_mul(scaled, c.dig_h2), 8192), 14)
        product == wrapping_mul(left, right)
        square == shr(wrapping_mul(shr(product, 15), shr(product, 15)), 7)
        v_x1 == wrapping_sub(product, shr(wrapping_mul(square, c.dig_h1), 4))
    IN  humidity_clamped(v_x1)

\* C31: compensate_humidity returns what the Bosch reference 32-bit algorithm
\* returns for every raw word, t_fine and humidity calibration, with every
\* intermediate value inside i32 (so it never panics), and the clamp to
\* [0, 419430400] keeps the result within 0..100 %RH (0..102400 in 1/1024 %RH)
C31_HumidityIsBosch ==
    bme_compensation.call = "compensate_humidity" =>
        /\ bme_compensation.outcome = "value"
        /\ ~humidity_vars(t_fine, bme_compensation.adc).overflow
        /\ bme_compensation.value = bosch_humidity(bme_compensation.adc)
        /\ bme_compensation.value \in 0..102400

\* C32: BME280 read(), whether it succeeds or fails, leaves the calibration
\* coefficients, the I2C address and `initialized` as they were (of the driver's
\* fields only t_fine may change), and within one read() the t_fine that the
\* pressure and the humidity compensation use is the one computed from that
\* read's raw temperature, never the one an earlier read left.  A step of
\* read() is its call or any step taken while the driver is at `measure`.
C32_ReadFrameAndFreshTFine ==
    /\ [][ ( \/ \E outcome \in {"written", "NotInitialized"} \union ReadErrors("BME280") :
                    Bme280ReadCall(outcome)
             \/ bme_pc = "measure" ) =>
               /\ bme_calibration' = bme_calibration
               /\ bme_address' = bme_address
               /\ initialized'["BME280"] = initialized["BME280"]
               /\ bme_result'.call = "read" ]_vars
    /\ [] ( (bme_pc = "ready" /\ bme_result.call = "read" /\ bme_result.value = "Ok") =>
              /\ bme_compensation.call = "read_compensated_data"
              /\ t_fine = wrapping_add_i32(var1(bme_compensation.temp_raw),
                                           var2(bme_compensation.temp_raw))
              /\ bme_compensation.fine = t_fine
              /\ bme_compensated.temperature = shr(t_fine * 5 + 128, 8)
              /\ bme_compensated.humidity =
                     humidity_value(t_fine, bme_compensation.adc) )
    /\ [] ( (bme_pc = "panicked" /\ ~temperature_overflows(bme_compensation.temp_raw)) =>
              bme_compensation.fine = t_fine )

\* C32 witness: a second read() returned Ok on the calibration 75 / 6F 01 00 12
\* 2D 03 1E with raw temperature 519888 (t_fine 128422, 25.08 degC) and raw
\* humidity 30000, while the calibration, the address and `initialized` are
\* those init() left
C32_Witness ==
    /\ bme_pc = "ready"
    /\ bme_result.call = "read"
    /\ bme_result.value = "Ok"
    /\ initialized["BME280"]
    /\ bme_address = BME280_ADDRESS_SECONDARY
    /\ bme_calibration.dig_t3 = -1000
    /\ bme_calibration.dig_h1 = 75
    /\ bme_calibration.dig_h2 = 367
    /\ bme_compensation.temp_raw = 519888
    /\ bme_compensation.adc = 30000
    /\ t_fine = 128422
    /\ bme_compensated.temperature = 2508
    /\ bme_compensated.humidity = 5

=============================================================================
